---- MODULE Spec2Model ----
(***************************************************************************)
(* bundle-rescue: the classic bundle route of package bundlecore.          *)
(*                                                                         *)
(* Run (one rescue of one token from one compromised EOA) is modelled as   *)
(* a state machine over the chain it talks to: the per-attempt planner     *)
(* (fees, nonce layout, clamping, solvency, signing), the relay fan-out    *)
(* (simulate, send) and the inclusion monitor (waitInclusionOrCompete).    *)
(* The chain is the environment: it mines blocks, may include a bundle a   *)
(* relay accepted in that bundle's target block, and may carry foreign     *)
(* transactions of the compromised EOA.  Every RPC the code guards with    *)
(* an error check may fail.                                                *)
(*                                                                         *)
(* Amounts of wei are kept in a scaled unit (WeiPerGwei units per gwei)    *)
(* because the model checker's integers are 32 bits wide; the code uses    *)
(* unbounded big.Int, so no overflow is modelled.                          *)
(***************************************************************************)
EXTENDS Integers, Sequences, FiniteSets, TLC

\* ------------------------------------------------------------------ bounds
\* Events of the environment during one run: a block mined, a foreign
\* transaction entering the mempool, an RPC call failing, the 45 s inclusion
\* wait expiring.
MaxEvents == 3
\* Head number when the run starts.
InitHead == 2
\* Scale of the wei unit: model units per gwei (the code: 1_000_000_000).
WeiPerGwei == 10

\* ------------------------------------------------------- program constants
DefaultBlocks == 6
DefaultTipGweiBase == 3
DefaultBaseMul == 2
FallbackTransferGas == 90000
CancelGas == 21000
FundingGas == 21000
DefaultBribeGas == 60000
PrefundPctNum == 110
PrefundPctDen == 100

\* p.TipMul is a float64; the model keeps it as a fraction <<num, den>>.
DefaultTipMul == <<6, 5>>

\* A nil *big.Int (amounts are never negative).
Nil == 0 - 1
\* A nil *bool.
NilBool == "nil"

\* ------------------------------------------------------------- arithmetic
RECURSIVE Pow(_, _)
Pow(b, e) == IF e = 0 THEN 1 ELSE b * Pow(b, e - 1)

\* math.Round on a non-negative fraction n/d: half away from zero.
Round(n, d) == (2 * n + d) \div (2 * d)

\* big.Float.Int on a non-negative fraction n/d: truncation.
Trunc(n, d) == n \div d

Max(a, b) == IF a >= b THEN a ELSE b

gweiToWei(g) == g * WeiPerGwei

\* mulBig(a, m): nil counts as zero.
mulBig(a, m) == IF a = Nil THEN 0 ELSE a * m

\* addBig(a, b): a nil operand yields the other one.
addBig(a, b) == IF a = Nil THEN b ELSE IF b = Nil THEN a ELSE a + b

\* ------------------------------------------------------------------ relays
\* A relay URL is kept as the feature classifyRelays looks at.
RelayForms == {"blank", "mm:", "bloxroute", "mev:", "classic:", "mevhost", "plain"}

relayKind(u) ==
    CASE u = "blank"     -> "none"
      [] u = "mm:"       -> "matchmaker"
      [] u = "bloxroute" -> "matchmaker"
      [] u = "mev:"      -> "matchmaker"
      [] u = "classic:"  -> "classic"
      [] u = "mevhost"   -> "matchmaker"
      [] OTHER           -> "classic"

\* classifyRelays: the indices of p.Relays on the classic and on the
\* matchmaker path.
classifyRelays(relays) ==
    [classic     |-> {i \in DOMAIN relays : relayKind(relays[i]) = "classic"},
     matchmakers |-> {i \in DOMAIN relays : relayKind(relays[i]) = "matchmaker"}]

\* ------------------------------------------------------------- token guards
\* A faulty predicate that lets every token through.
BlockedNever(d) == FALSE

\* A whitelist answer that is not a known "yes" counts as blocked.
BlockedUnlessKnown(d) ==
    \/ d.Paused \/ d.TransferDisabled \/ d.BlacklistedFrom \/ d.BlacklistedTo
    \/ d.OnlyWhitelisted /\ (d.FromWhitelisted # "true" \/ d.ToWhitelisted # "true")

\* TokenRestrictions; FromWhitelisted / ToWhitelisted are *bool: "nil", "true", "false".
Blocked(d) ==
    IF d.Paused \/ d.TransferDisabled \/ d.BlacklistedFrom \/ d.BlacklistedTo
    THEN TRUE
    ELSE IF d.OnlyWhitelisted
         THEN IF d.FromWhitelisted # NilBool /\ d.FromWhitelisted = "false" THEN TRUE
              ELSE IF d.ToWhitelisted # NilBool /\ d.ToWhitelisted = "false" THEN TRUE
              ELSE FALSE
         ELSE FALSE

NoRestrictions ==
    [Paused |-> FALSE, TransferDisabled |-> FALSE, OnlyWhitelisted |-> FALSE,
     FromWhitelisted |-> NilBool, ToWhitelisted |-> NilBool,
     BlacklistedFrom |-> FALSE, BlacklistedTo |-> FALSE]

\* -------------------------------------------------------------- fee oracle
\* strings.ToLower on the tip modes a caller passes.
ToLower(s) == IF s = "FEEHIST" THEN "feehist" ELSE s

\* TipFromFeeHistory: the maximum of reward[.][0] over the window; an RPC
\* error, an empty matrix or a maximum of zero is an error (Nil).
RECURSIVE maxReward(_, _)
maxReward(rows, max) ==
    IF rows = <<>> THEN max
    ELSE LET row == Head(rows)
             m   == IF Len(row) = 0 THEN max
                    ELSE IF row[1] > max THEN row[1] ELSE max
         IN  maxReward(Tail(rows), m)

TipFromFeeHistory(resp) ==
    IF resp.err THEN Nil
    ELSE LET max == maxReward(resp.reward, 0)
         IN  IF max = 0 THEN Nil ELSE max

\* The fixed escalation: max(suggest, base) * TipMul^attempt, rounded to gwei.
fixedTip(p, attempt, suggest) ==
    LET g            == IF suggest = Nil THEN 0 ELSE suggest \div WeiPerGwei
        baseTipGwei  == IF suggest # Nil /\ g > p.TipGweiBase THEN g ELSE p.TipGweiBase
        tipGweiScaled == Round(baseTipGwei * Pow(p.TipMul[1], attempt),
                               Pow(p.TipMul[2], attempt))
    IN  gweiToWei(IF tipGweiScaled < 1 THEN p.TipGweiBase ELSE tipGweiScaled)

\* The tip of one attempt (Run, the TipMode switch).
attemptTip(p, attempt, feeHist, suggest) ==
    IF ToLower(p.TipMode) = "feehist"
    THEN LET t == TipFromFeeHistory(feeHist)
         IN  IF t # Nil /\ t > 0
             THEN IF p.TipMul[1] > 0 /\ p.TipMul # <<1, 1>>
                  THEN Trunc(t * Pow(p.TipMul[1], attempt), Pow(p.TipMul[2], attempt))
                  ELSE t
             ELSE fixedTip(p, attempt, suggest)
    ELSE fixedTip(p, attempt, suggest)

\* A faulty fee cap that leaves the tip out.
feeCapNoTip(baseFee, baseMul, tip) == mulBig(baseFee, baseMul)

\* maxFee := addBig(mulBig(baseFee, p.BaseMul), tip)
feeCap(baseFee, baseMul, tip) == addBig(mulBig(baseFee, baseMul), tip)

\* ------------------------------------------------------------ transactions
EncodeERC20Transfer(to, amount) == <<"a9059cbb", to, amount>>

NoData == <<>>
BribeInit == <<65, 255>>

buildDynamicTx(chain, nonce, to, value, gasLimit, tip, cap, data) ==
    [ChainID |-> chain, Nonce |-> nonce, Gas |-> gasLimit, GasTipCap |-> tip,
     GasFeeCap |-> cap, To |-> to, Value |-> value, Data |-> data]

\* signTx: the signed transaction names its signer; its hash is the signed
\* transaction itself (equal fields and signer, equal hash).
signTx(tx, chain, prv) == [tx |-> tx, signer |-> prv]

Hash(stx) == stx

\* ---------------------------------------------------------------- planner
\* A faulty planner that never clamps.
clampAmountNone(amount, balRead) == amount

\* A faulty planner that keeps the shortfall instead of the balance.
clampAmountShortfall(amount, balRead) ==
    IF balRead # Nil /\ balRead < amount THEN amount - balRead ELSE amount

\* The clamp of p.AmountWei to the balance read (Nil: the read failed or
\* returned fewer than 32 bytes).
clampAmount(amount, balRead) ==
    IF balRead # Nil /\ balRead < amount THEN balRead ELSE amount

\* prefundWei := (gasTransfer + cancelGas) * maxFee * 110 / 100
prefund(gasTransfer, cancelGas, maxFee) ==
    (((gasTransfer + cancelGas) * maxFee) * PrefundPctNum) \div PrefundPctDen

bribeGasOf(p) ==
    IF p.BribeWei # Nil /\ p.BribeWei > 0
    THEN IF p.BribeGasLimit = 0 THEN DefaultBribeGas ELSE p.BribeGasLimit
    ELSE 0

bribeWeiOf(p) == IF p.BribeWei # Nil /\ p.BribeWei > 0 THEN p.BribeWei ELSE 0

\* A faulty requirement that leaves the gas of the bribe out.
needTotalNoBribeGas(p, prefundWei, maxFee) ==
    (FundingGas * maxFee + prefundWei) + bribeWeiOf(p)

\* needTotal := (21000 + bribeGas) * maxFee + prefundWei + bribeWei
needTotal(p, prefundWei, maxFee) ==
    ((FundingGas + bribeGasOf(p)) * maxFee + prefundWei) + bribeWeiOf(p)

\* A faulty solvency test that never aborts.
insufficientNever(safeBal, need) == safeBal < 0

\* The solvency test: TRUE when the run must abort.
insufficient(safeBal, need) == safeBal < need

\* A faulty layout that takes equal nonces for a pending transaction.
replaceModeOnEqual(latestNonce, pendingNonce) == pendingNonce >= latestNonce

\* The nonce layout read from (latest, pending).
replaceMode(latestNonce, pendingNonce) == pendingNonce > latestNonce

fromNonceOf(latestNonce, pendingNonce) ==
    IF replaceMode(latestNonce, pendingNonce) THEN latestNonce ELSE pendingNonce

\* A faulty layout that signs the transfer at the cancel's nonce.
transferNonceSame(fromNonce, replace) == fromNonce

transferNonce(fromNonce, replace) == IF replace THEN fromNonce + 1 ELSE fromNonce

targetBlockOf(headNum, attempt) == headNum + (1 + attempt)

\* The plan of one attempt: the signed list [bribe?, funding, cancel?, transfer].
signedListCancelLast(p, safeNonce, fromNonce, replace, prefundWei, gasTransfer, tip, maxFee, calldata) ==
    LET hasBribe  == p.BribeWei # Nil /\ p.BribeWei > 0
        gasBribe  == IF p.BribeGasLimit > 0 THEN p.BribeGasLimit ELSE DefaultBribeGas
        tx0       == buildDynamicTx(p.ChainID, safeNonce, "nil", p.BribeWei, gasBribe,
                                    tip, maxFee, BribeInit)
        safeNonce1 == IF hasBribe THEN safeNonce + 1 ELSE safeNonce
        tx1       == buildDynamicTx(p.ChainID, safeNonce1, "from", prefundWei, FundingGas,
                                    tip, maxFee, NoData)
        tx2       == buildDynamicTx(p.ChainID, transferNonce(fromNonce, replace), "token", 0,
                                    gasTransfer, tip, maxFee, calldata)
        cancelTx  == buildDynamicTx(p.ChainID, fromNonce, "from", 0, CancelGas,
                                    tip, maxFee, NoData)
    IN  (IF hasBribe THEN <<signTx(tx0, p.ChainID, "safe")>> ELSE <<>>)
        \o <<signTx(tx1, p.ChainID, "safe")>>
        \o <<signTx(tx2, p.ChainID, "from")>>
        \o (IF replace THEN <<signTx(cancelTx, p.ChainID, "from")>> ELSE <<>>)

signedListOf(p, safeNonce, fromNonce, replace, prefundWei, gasTransfer, tip, maxFee, calldata) ==
    LET hasBribe  == p.BribeWei # Nil /\ p.BribeWei > 0
        gasBribe  == IF p.BribeGasLimit > 0 THEN p.BribeGasLimit ELSE DefaultBribeGas
        tx0       == buildDynamicTx(p.ChainID, safeNonce, "nil", p.BribeWei, gasBribe,
                                    tip, maxFee, BribeInit)
        safeNonce1 == IF hasBribe THEN safeNonce + 1 ELSE safeNonce
        tx1       == buildDynamicTx(p.ChainID, safeNonce1, "from", prefundWei, FundingGas,
                                    tip, maxFee, NoData)
        tx2       == buildDynamicTx(p.ChainID, transferNonce(fromNonce, replace), "token", 0,
                                    gasTransfer, tip, maxFee, calldata)
        cancelTx  == buildDynamicTx(p.ChainID, fromNonce, "from", 0, CancelGas,
                                    tip, maxFee, NoData)
    IN  (IF hasBribe THEN <<signTx(tx0, p.ChainID, "safe")>> ELSE <<>>)
        \o <<signTx(tx1, p.ChainID, "safe")>>
        \o (IF replace THEN <<signTx(cancelTx, p.ChainID, "from")>> ELSE <<>>)
        \o <<signTx(tx2, p.ChainID, "from")>>

\* Everything one pass of the attempt loop derives from what it read, up to
\* and including the signing (signedList is empty when the solvency test fails).
planOf(p, attempt, headNum, baseFee, latestNonce, pendingNonce, tip, safeNonce, balRead, est, safeBal) ==
    LET replace     == replaceMode(latestNonce, pendingNonce)
        fromNonce   == fromNonceOf(latestNonce, pendingNonce)
        maxFee      == feeCap(baseFee, p.BaseMul, tip)
        amount      == clampAmount(p.AmountWei, balRead)
        calldata    == EncodeERC20Transfer("to", amount)
        gasTransfer == IF est > 0 THEN est ELSE FallbackTransferGas
        cancelGas   == IF replace THEN CancelGas ELSE 0
        prefundWei  == prefund(gasTransfer, cancelGas, maxFee)
        need        == needTotal(p, prefundWei, maxFee)
        short       == insufficient(safeBal, need)
    IN  [attempt |-> attempt, targetBlock |-> targetBlockOf(headNum, attempt),
         baseFee |-> baseFee, tip |-> tip, maxFee |-> maxFee,
         latestNonce |-> latestNonce, pendingNonce |-> pendingNonce,
         replaceMode |-> replace, fromNonce |-> fromNonce,
         balRead |-> balRead, amount |-> amount,
         gasTransfer |-> gasTransfer, cancelGas |-> cancelGas,
         prefundWei |-> prefundWei, needTotal |-> need, safeBal |-> safeBal,
         signedList |-> IF short THEN <<>>
                        ELSE signedListOf(p, safeNonce, fromNonce, replace, prefundWei,
                                          gasTransfer, tip, maxFee, calldata)]

NoPlan ==
    [attempt |-> Nil, targetBlock |-> 0, baseFee |-> 0, tip |-> 0, maxFee |-> 0,
     latestNonce |-> 0, pendingNonce |-> 0, replaceMode |-> FALSE, fromNonce |-> 0,
     balRead |-> Nil, amount |-> 0, gasTransfer |-> 0, cancelGas |-> 0,
     prefundWei |-> 0, needTotal |-> 0, safeBal |-> 0, signedList |-> <<>>]

\* ------------------------------------------------------------------ inputs
\* What the RPCs may answer (wei amounts in model units).
BaseFees == {20}
Suggests == {Nil, gweiToWei(5)}
NoFeeHist == [err |-> TRUE, reward |-> <<>>]
FeeHists == {NoFeeHist, [err |-> FALSE, reward |-> <<>>],
             [err |-> FALSE, reward |-> <<<<12>>, <<25>>>>],
             [err |-> FALSE, reward |-> <<<<8>>>>]}

\* The RPC reads of one pass of the attempt loop that may fail.
PlanReads == {"feeHistory", "header", "latest", "pending", "safeNonce",
              "balanceOf", "safeBal"}

\* The sets of reads that fail together: as many as the budget n allows, and
\* no more than two in one pass (two failing reads already take each branch
\* that depends on more than one error).
ErrSets(S, n) ==
    IF n <= 0 THEN {{}}
    ELSE IF n = 1 THEN {{}} \cup {{x} : x \in S}
    ELSE {E \in SUBSET S : Cardinality(E) <= 2}

BaseParams ==
    [ChainID |-> 1, Relays |-> <<"plain">>, AmountWei |-> 2,
     Blocks |-> 2, TipGweiBase |-> 0, TipMul |-> <<0, 1>>, BaseMul |-> 0, BufferPct |-> 0,
     SimulateOnly |-> FALSE, SkipIfPaused |-> FALSE, TipMode |-> "fixed",
     BribeWei |-> Nil, BribeGasLimit |-> 0]

OneShot == [BaseParams EXCEPT !.Blocks = 1]

PausedParams == [OneShot EXCEPT !.SkipIfPaused = TRUE]

\* The runs the model starts: the defaults, and one change of them each.
Configs ==
    {BaseParams,
     [BaseParams EXCEPT !.TipMode = "FEEHIST", !.TipMul = <<3, 2>>, !.TipGweiBase = 5],
     [OneShot EXCEPT !.BribeWei = 5, !.TipMul = <<1, 1>>, !.BaseMul = 1],
     [BaseParams EXCEPT !.SimulateOnly = TRUE, !.Relays = <<"plain", "mm:">>,
                         !.TipGweiBase = 5],
     [OneShot EXCEPT !.Relays = <<"classic:", "bloxroute">>, !.TipGweiBase = 2],
     [OneShot EXCEPT !.AmountWei = 0],
     [OneShot EXCEPT !.Relays = <<"blank">>],
     [OneShot EXCEPT !.Relays = <<>>],
     PausedParams}

\* What the token's guards answer: CheckPaused's (known, paused) and the
\* findings of the remaining probes of CheckRestrictions.
FreeToken == [known |-> FALSE, paused |-> FALSE, restr |-> NoRestrictions]

Tokens ==
    {[known |-> TRUE, paused |-> TRUE, restr |-> NoRestrictions],
     [known |-> TRUE, paused |-> FALSE,
      restr |-> [NoRestrictions EXCEPT !.OnlyWhitelisted = TRUE, !.ToWhitelisted = "false"]]}

\* What the chain answers when the run starts: the token, the token balance
\* of the compromised EOA, the gas estimate of the transfer (0: the estimate
\* fails) and the sponsor's balance.
BaseWorld == [token |-> FreeToken, tokenBal |-> 3, est |-> 50000, safeBal |-> 1000000000]

Worlds ==
    {BaseWorld,
     [BaseWorld EXCEPT !.est = 0],
     [BaseWorld EXCEPT !.safeBal = 0]}

\* The runs the model starts, and where.
Starts ==
    (Configs \X {BaseWorld}) \cup ({OneShot} \X Worlds)
    \cup {<<[BaseParams EXCEPT !.Blocks = 0], [BaseWorld EXCEPT !.safeBal = 6000000]>>}
    \cup ({OneShot, PausedParams} \X {[BaseWorld EXCEPT !.token = t] : t \in Tokens})

CheckPaused(tok) == [known |-> tok.known, paused |-> tok.paused]

CheckRestrictions(tok) ==
    IF CheckPaused(tok).known /\ CheckPaused(tok).paused
    THEN [NoRestrictions EXCEPT !.Paused = TRUE]
    ELSE tok.restr

\* The defaults Run fills in.
withDefaults(q) ==
    [q EXCEPT !.Blocks      = IF q.Blocks <= 0 THEN DefaultBlocks ELSE q.Blocks,
              !.TipGweiBase = IF q.TipGweiBase <= 0 THEN DefaultTipGweiBase ELSE q.TipGweiBase,
              !.TipMul      = IF q.TipMul[1] <= 0 THEN DefaultTipMul ELSE q.TipMul,
              !.BaseMul     = IF q.BaseMul <= 0 THEN DefaultBaseMul ELSE q.BaseMul,
              !.BufferPct   = IF q.BufferPct < 0 THEN 0 ELSE q.BufferPct]

\* ------------------------------------------------------------------- state
VARIABLES
    p,              \* Params (Run's copy: defaults filled in, AmountWei clamped)
    world,          \* the token and what the chain holds when the run starts
    pc,             \* where Run is
    attempt,        \* the loop index
    startFromNonce, \* PendingNonceAt(From) read once before the loop
    plan,           \* the current attempt's plan
    prev,           \* tip and target block of the attempt before
    simPending,     \* relays whose simulate call has not returned
    simOK,          \* the simOK flag of the preflight simulation
    sendPending,    \* relays whose send call has not returned
    result,         \* what Run returned
    head,           \* chain: head number
    chainLatest,    \* chain: latest nonce of the compromised EOA
    chainPending,   \* chain: pending nonce of the compromised EOA
    chainSafeNonce, \* chain: nonce of the sponsor
    tokenBal,       \* chain: token balance of the compromised EOA
    minedBy,        \* chain: who signed the mined transactions of the EOA
    receipts,       \* chain: receipts of transactions signed by this run
    sentBundles,    \* bundles some relay accepted, by target block
    chosen,         \* nonces chosen for the transfer by the attempts so far
    lastCheck,      \* what the monitor's CHECK read last (until the next plan)
    events          \* environment events so far

\* State of the other entry points (package eip7702: ExecuteRescue).
VARIABLES
    req,            \* RescueRequest
    rescuePc,       \* where ExecuteRescue is
    signed,         \* the signed set-code transaction
    relayCalls,     \* every HTTP request ExecuteRescue issued, in order
    results,        \* SendPrivate's results
    sendAt,         \* SendPrivate's position: <<relay index, method index>>
    rescueErr       \* the error ExecuteRescue returned

rescueVars == <<req, rescuePc, signed, relayCalls, results, sendAt, rescueErr>>

\* State of the token inspector: a restriction descriptor that gathers findings.
VARIABLES
    tr0,            \* the descriptor before further findings
    tr              \* the descriptor now

inspectorVars == <<tr0, tr>>

\* State of the clamp step applied repeatedly against one live balance.
VARIABLES
    clampIn,        \* the amount asked for and the balance balanceOf returns
    amountWei,      \* p.AmountWei after the clamps so far
    payloads        \* the signed transfer built after each clamp

clampVars == <<clampIn, amountWei, payloads>>

\* The cancellation of Run's context.
VARIABLES
    cancelAt        \* whether ctx was cancelled, and where Run was then

\* State of the batch processor (cmd/batchcli: processBytes).
VARIABLES
    data,           \* the input: what csv.Reader.Read returns, record by record
    lineNo,         \* records read so far
    okW,            \* rows written to ok.csv (after the header)
    badW,           \* rows written to bad.csv (after the header)
    batchPc         \* "run", "done" (returned nil) or "failed" (returned an error)

batchVars == <<data, lineNo, okW, badW, batchPc>>

\* State of the batch binary (cmd/batchcli: main, mustLoadConfig, run).
VARIABLES
    cfg,            \* appConfig after flag.Parse
    host,           \* what the host answers: dial, input file, output files, csv reader
    mainPc,         \* "load", "run" or "exited"
    exitCode        \* the process's exit code

mainBinVars == <<cfg, host, mainPc, exitCode>>

\* The planning of one attempt on its own: what the attempt reads, the fees of
\* the transaction pending at the compromised EOA's latest nonce (if one is
\* pending), and the plan Run makes.
VARIABLES
    planIn,         \* Params, the attempt, what the RPCs answer, the pending transaction's fees
    planOut         \* the plan of that attempt

planVars == <<planIn, planOut>>

\* One relay's simulate call on its own: the relay, its answer, and what
\* OnSimResult is told.
VARIABLES
    simIn,          \* the relay's kind, the strategy switch, the answers to the request(s)
    simReport       \* "none", or the ok flag reported: "ok" / "failed"

simVars == <<simIn, simReport>>

\* The pause probe on its own: what the token's getters answer and what
\* CheckPaused and CheckRestrictions make of it.
VARIABLES
    answers,        \* per getter of pausedSigs: Nil (the call fails or is empty) or the last byte
    probe           \* the probe's outcome: (known, paused) and TokenRestrictions.Paused

pauseVars == <<answers, probe>>

\* The chain client's call with retry on its own: what each eth_call attempt
\* answers and what callWithRetry made of it.
VARIABLES
    callOuts,       \* the answers of up to three attempts, in order
    callRes         \* callWithRetry's result, the attempts made and the sleeps taken

retryVars == <<callOuts, callRes>>

\* The transfer preflight on its own: what the probes' RPCs answer, the
\* triple PreflightTransfer7702 returns and what preflightWithRetry7702 makes
\* of it.
VARIABLES
    pfIn,           \* the amount, the override client, the answers of the probes' calls
    pfTry,          \* preflightWithRetry7702's loop index i
    pfOut,          \* the (ok, why, err) of the last attempt
    pfReason        \* what preflightWithRetry7702 returned

preflightVars == <<pfIn, pfTry, pfOut, pfReason>>

\* The delegated-code batch (runBatchPairsFromCSV): where it stands, the rows
\* read so far, the local sponsor nonce counter and the transactions handed to
\* SendPrivate.
VARIABLES sweepPc, rowIdx, nextNonce, handed

sweepVars == <<sweepPc, rowIdx, nextNonce, handed>>

\* The RPC concurrency gate (rpcConcurrencyGate): the configured value, the
\* channel's capacity and length, the senders blocked on it, and each caller of
\* callContractWithRetry: where it stands, its attempt, its result, and whether
\* it was admitted from the queue of blocked senders.
VARIABLES gateEnv, gateCap, gateLen, sendq, callerPc, callerTry, callerRes, woken

gateVars == <<gateEnv, gateCap, gateLen, sendq, callerPc, callerTry, callerRes, woken>>

\* The fee oracle on its own: the configuration, attempt and RPC answers of one
\* attempt, and the tip the attempt signs with.
VARIABLES tipIn, tipOut

tipVars == <<tipIn, tipOut>>

\* The bundle-print memo (maybeLogBundleOnce): the bundle each simulating
\* goroutine passes, where each stands, the fingerprints stored and the bundle
\* headers printed, in order.
VARIABLES memoCall, memoPc, printedBundleFingerprints, printedLog

memoVars == <<memoCall, memoPc, printedBundleFingerprints, printedLog>>

otherVars == <<rescueVars, inspectorVars, clampVars, cancelAt, batchVars, mainBinVars, planVars, simVars, pauseVars, retryVars, preflightVars, sweepVars, gateVars, tipVars, memoVars>>

mainVars == <<p, world, pc, attempt, startFromNonce, plan, prev, simPending, simOK,
              sendPending, result, head, chainLatest, chainPending, chainSafeNonce, tokenBal,
              minedBy, receipts, sentBundles, chosen, lastCheck, events>>

vars == <<mainVars, otherVars>>

runVars == <<p, pc, attempt, startFromNonce, plan, prev, simPending, simOK,
               sendPending, result, chosen, lastCheck>>
chainVars == <<head, chainLatest, chainPending, chainSafeNonce, tokenBal, minedBy, receipts>>

NoResult == [Included |-> FALSE, Reason |-> "", Err |-> ""]
NoPrev == [has |-> FALSE, tip |-> 0, target |-> 0]
NoCheck == [attempt |-> Nil, n |-> Nil]

\* ExecuteRescue is not running.
NoReq == [AuthCount |-> 0, TipWei |-> 0, RelayURLs |-> <<>>, EnableSimulation |-> FALSE]
NoTx == [Nonce |-> Nil, GasTipCap |-> 0, GasFeeCap |-> 0, Gas |-> 0, AuthList |-> <<>>]

RescueIdle ==
    /\ req = NoReq
    /\ rescuePc = "off"
    /\ signed = NoTx
    /\ relayCalls = <<>>
    /\ results = <<>>
    /\ sendAt = <<1, 1>>
    /\ rescueErr = ""

InspectorIdle == tr0 = NoRestrictions /\ tr = NoRestrictions

ClampIdle == clampIn = [amount |-> 0, bal |-> Nil] /\ amountWei = 0 /\ payloads = <<>>

\* Run's context is live.
NoCancel == [fired |-> FALSE, attempt |-> Nil, pc |-> ""]

cancelled == cancelAt.fired

BatchIdle == data = <<>> /\ lineNo = 0 /\ okW = <<>> /\ badW = <<>> /\ batchPc = "off"

NoCfg == [inputPath |-> "", rpcURL |-> "", safePrivateHex |-> ""]
NoHost == [dialOK |-> TRUE, readable |-> TRUE, outputsOK |-> TRUE, readerOK |-> TRUE]

MainIdle == cfg = NoCfg /\ host = NoHost /\ mainPc = "off" /\ exitCode = Nil

NoPlanIn ==
    [p |-> BaseParams, attempt |-> Nil, baseFee |-> 0, est |-> 0, safeBal |-> 0,
     pendingNonce |-> 0, pendingTx |-> [tip |-> 0, cap |-> 0]]

PlanIdle == planIn = NoPlanIn /\ planOut = NoPlan

NoSimResult == [present |-> FALSE, results |-> <<>>]

NoResponse == [transportErr |-> TRUE, status |-> 0, rpcErr |-> "", result |-> NoSimResult]

NoSimIn == [kind |-> "none", useStrategy |-> FALSE, resp |-> NoResponse, resp2 |-> NoResponse]

SimIdle == simIn = NoSimIn /\ simReport = "none"

NoProbe == [done |-> FALSE, known |-> FALSE, paused |-> FALSE, Paused |-> FALSE]

PauseIdle == answers = <<>> /\ probe = NoProbe

NoCallRes == [done |-> FALSE, ret |-> <<>>, err |-> "", calls |-> 0, sleeps |-> <<>>]

RetryIdle == callOuts = <<>> /\ callRes = NoCallRes

NoPfIn == [amount |-> 0, rc |-> FALSE, outs |-> <<>>, est |-> "", direct |-> [err |-> "", ret |-> <<>>], pair |-> FALSE,
           toPair |-> [err |-> "", ret |-> <<>>]]

NoTriple == [ok |-> FALSE, why |-> "", err |-> ""]

NoReason == [done |-> FALSE, class |-> "", text |-> ""]

PreflightIdle == pfIn = NoPfIn /\ pfTry = 0 /\ pfOut = NoTriple /\ pfReason = NoReason

SweepIdle == sweepPc = "off" /\ rowIdx = 0 /\ nextNonce = 0 /\ handed = <<>>

GateIdle ==
    /\ gateEnv = Nil /\ gateCap = 0 /\ gateLen = 0 /\ sendq = <<>>
    /\ callerPc = <<>> /\ callerTry = <<>> /\ callerRes = <<>> /\ woken = {}

NoTipIn == [p |-> BaseParams, attempt |-> 0, feeHist |-> NoFeeHist, suggest |-> Nil]

TipIdle == tipIn = NoTipIn /\ tipOut = Nil

MemoIdle ==
    /\ memoCall = <<>> /\ memoPc = <<>> /\ printedBundleFingerprints = {} /\ printedLog = <<>>

OtherIdle == RescueIdle /\ InspectorIdle /\ ClampIdle /\ cancelAt = NoCancel /\ BatchIdle /\ MainIdle /\ PlanIdle /\ SimIdle /\ PauseIdle /\ RetryIdle /\ PreflightIdle /\ SweepIdle /\ GateIdle /\ TipIdle /\ MemoIdle

\* Nonce of the compromised EOA and of the sponsor when the run starts.
InitNonce == 3
InitSafeNonce == 7

Init ==
    /\ \E s \in Starts : p = s[1] /\ world = s[2]
    /\ pc = "start"
    /\ attempt = 0
    /\ startFromNonce = 0
    /\ plan = NoPlan
    /\ prev = NoPrev
    /\ simPending = {}
    /\ simOK = FALSE
    /\ sendPending = {}
    /\ result = NoResult
    /\ head = InitHead
    /\ chainLatest = InitNonce
    /\ \E k \in {0, 1} : chainPending = InitNonce + k /\ events = k
    /\ chainSafeNonce = InitSafeNonce
    /\ tokenBal = world.tokenBal
    /\ minedBy = {}
    /\ receipts = {}
    /\ sentBundles = {}
    /\ chosen = {}
    /\ lastCheck = NoCheck
    /\ OtherIdle

\* Run returns.
Return(incl, reason, err) ==
    /\ pc' = "done"
    /\ result' = [Included |-> incl, Reason |-> reason, Err |-> err]

\* An RPC may fail while the run's budget of failures lasts.
MayFail == IF events < MaxEvents THEN {FALSE, TRUE} ELSE {FALSE}

\* Run, before the attempt loop: the argument check, the pause pre-check,
\* the relay classification, the defaults, the restriction pre-check and the
\* read of the starting nonce.
RunStart ==
    /\ pc = "start"
    /\ UNCHANGED <<world, otherVars, attempt, plan, prev, simPending, simOK, sendPending, chosen>>
    /\ UNCHANGED <<chainVars, sentBundles, lastCheck>>
    /\ LET relays == classifyRelays(p.Relays)
       IN  IF p.AmountWei = Nil \/ p.AmountWei <= 0
           THEN /\ Return(FALSE, "", "AmountWei must be > 0")
                /\ UNCHANGED <<p, startFromNonce, events>>
           ELSE IF p.SkipIfPaused /\ CheckPaused(world.token).known /\ CheckPaused(world.token).paused
           THEN /\ Return(FALSE, "token paused", "")
                /\ UNCHANGED <<p, startFromNonce, events>>
           ELSE IF relays.classic = {} /\ relays.matchmakers = {}
           THEN /\ Return(FALSE, "", "no relays or matchmakers configured")
                /\ UNCHANGED <<p, startFromNonce, events>>
           ELSE IF Blocked(CheckRestrictions(world.token))
           THEN /\ Return(FALSE, "token restricted", "")
                /\ p' = withDefaults(p)
                /\ UNCHANGED <<startFromNonce, events>>
           ELSE \E fail \in MayFail :
                  IF fail
                  THEN /\ Return(FALSE, "", "rpc error")
                       /\ p' = withDefaults(p)
                       /\ events' = events + 1
                       /\ UNCHANGED startFromNonce
                  ELSE /\ pc' = "attempt"
                       /\ p' = withDefaults(p)
                       /\ startFromNonce' = chainPending
                       /\ UNCHANGED <<result, events>>

\* The attempt loop ends: every attempt was made.
Exhausted ==
    /\ pc = "attempt"
    /\ ~(attempt < p.Blocks)
    /\ Return(FALSE, "exhausted attempts", "")
    /\ UNCHANGED <<p, world, otherVars, attempt, startFromNonce, plan, prev, simPending, simOK,
                   sendPending, chosen, lastCheck, chainVars, sentBundles, events>>

\* The relays of the run.
relaysOf(q) == classifyRelays(q.Relays).classic \cup classifyRelays(q.Relays).matchmakers

\* One pass of the attempt loop up to the signed list: base fee and head,
\* target block, nonce layout, tip and fee cap, clamp, gas, funding value,
\* solvency test, signing; then the simulate fan-out starts.
PlanAttempt ==
    /\ pc = "attempt"
    /\ attempt < p.Blocks
    /\ ~cancelled
    /\ UNCHANGED <<world, otherVars, attempt, startFromNonce, sendPending, chainVars,
                   sentBundles>>
    /\ simOK' = FALSE
    /\ lastCheck' = NoCheck
    /\ \E E \in ErrSets(PlanReads, MaxEvents - events), bf \in BaseFees, sg \in Suggests,
          fh \in (IF ToLower(p.TipMode) = "feehist" THEN FeeHists ELSE {NoFeeHist}),
          bal \in {tokenBal}, est \in {world.est}, sb \in {world.safeBal} :
         /\ events' = events + Cardinality(E)
         /\ IF "feeHistory" \in E /\ "header" \in E
            THEN \* latestBaseFee failed as well
                 /\ Return(FALSE, "", "latestBaseFee failed")
                 /\ UNCHANGED <<p, plan, prev, simPending, chosen>>
            ELSE LET headNum == IF "header" \in E THEN 0 ELSE head
                     latest  == IF "latest" \in E THEN 0 ELSE chainLatest
                     pending == IF "pending" \in E THEN 0 ELSE chainPending
                     tip     == attemptTip(p, attempt, fh, sg)
                     safeN   == IF "safeNonce" \in E THEN 0 ELSE chainSafeNonce
                     balRead == IF "balanceOf" \in E THEN Nil ELSE bal
                     safeBal == IF "safeBal" \in E THEN 0 ELSE sb
                     pl      == planOf(p, attempt, headNum, bf, latest, pending, tip,
                                       safeN, balRead, est, safeBal)
                 IN  IF pending > pl.fromNonce /\ ~pl.replaceMode
                     THEN /\ Return(FALSE, "competing nonce", "")
                          /\ UNCHANGED <<p, plan, prev, simPending, chosen>>
                     ELSE /\ p' = [p EXCEPT !.AmountWei = pl.amount]
                          /\ plan' = pl
                          /\ prev' = IF plan.attempt = Nil THEN NoPrev
                                     ELSE [has |-> TRUE, tip |-> plan.tip,
                                           target |-> plan.targetBlock]
                          /\ IF pl.signedList = <<>>
                             THEN /\ Return(FALSE, "insufficient SAFE balance for fee+prefund", "")
                                  /\ UNCHANGED <<simPending, chosen>>
                             ELSE /\ pc' = "sim"
                                  /\ simPending' = relaysOf(p)
                                  /\ chosen' = chosen \cup {transferNonce(pl.fromNonce, pl.replaceMode)}
                                  /\ UNCHANGED result

\* The loop's continue: the next attempt.
NextAttempt ==
    /\ pc' = "attempt"
    /\ attempt' = attempt + 1
    /\ UNCHANGED result

\* A faulty barrier that does not wait for the goroutines.
wgWaitNone(pending) == TRUE

\* sync.WaitGroup.Wait: returns when every goroutine added has called Done.
wgWait(pending) == pending = {}

\* One relay's preflight simulation returns (classic: eth_callBundle without
\* an error or a reverted result; matchmaker: supported and without error).
SimRelay(r) ==
    /\ pc = "sim"
    /\ r \in simPending
    /\ simPending' = simPending \ {r}
    /\ \E ok \in BOOLEAN : simOK' = (simOK \/ ok)
    /\ UNCHANGED <<p, world, otherVars, pc, attempt, startFromNonce, plan, prev, sendPending, result,
                   chosen, lastCheck, chainVars, sentBundles, events>>

\* The branch Run takes after the preflight simulation.
simulateOnlyNever(q) == FALSE

simulateOnly(q) == q.SimulateOnly

\* wgSim.Wait() returns: simulate-only runs simulate again, the others send.
SimJoin ==
    /\ pc = "sim"
    /\ wgWait(simPending)
    /\ IF simulateOnly(p)
       THEN /\ pc' = "simonly"
            /\ simPending' = classifyRelays(p.Relays).classic
            /\ simOK' = FALSE
            /\ UNCHANGED sendPending
       ELSE /\ pc' = "send"
            /\ sendPending' = relaysOf(p)
            /\ UNCHANGED <<simPending, simOK>>
    /\ UNCHANGED <<p, world, otherVars, attempt, startFromNonce, plan, prev, result, chosen,
                   lastCheck, chainVars, sentBundles, events>>

\* Simulate-only: one classic relay's second simulation returns.
SimOnlyRelay(r) ==
    /\ pc = "simonly"
    /\ r \in simPending
    /\ simPending' = simPending \ {r}
    /\ \E ok \in BOOLEAN : simOK' = (simOK \/ ok)
    /\ UNCHANGED <<p, world, otherVars, pc, attempt, startFromNonce, plan, prev, sendPending, result,
                   chosen, lastCheck, chainVars, sentBundles, events>>

\* Simulate-only: the second wgSim.Wait() returns.
SimOnlyJoin ==
    /\ pc = "simonly"
    /\ wgWait(simPending)
    /\ ~cancelled
    /\ UNCHANGED <<p, world, otherVars, startFromNonce, plan, prev, simPending, simOK, sendPending,
                   chosen, lastCheck, chainVars, sentBundles>>
    /\ IF ~simOK
       THEN \E fail \in MayFail :
              LET curFromNonce2 == IF fail THEN 0 ELSE chainLatest
              IN  /\ events' = events + (IF fail THEN 1 ELSE 0)
                  /\ IF curFromNonce2 > startFromNonce
                     THEN Return(FALSE, "competing nonce", "") /\ UNCHANGED attempt
                     ELSE NextAttempt
       ELSE /\ Return(FALSE, "simulate only", "")
            /\ UNCHANGED <<attempt, events>>

\* A matchmaker is called with Run's ctx (sendMevBundle(ctx, ...)); a classic
\* relay is called through rc.C.Call, which takes no ctx.
usesCtx(r) == r \in classifyRelays(p.Relays).matchmakers

\* One relay's send call returns; an accepted bundle may be built into its
\* target block.
SendRelay(r) ==
    /\ pc = "send"
    /\ r \in sendPending
    /\ sendPending' = sendPending \ {r}
    /\ \E accepted \in (IF cancelled /\ usesCtx(r) THEN {FALSE} ELSE BOOLEAN) :
         sentBundles' = IF accepted
                        THEN sentBundles \cup {[txs |-> plan.signedList,
                                                target |-> plan.targetBlock]}
                        ELSE sentBundles
    /\ UNCHANGED <<p, world, otherVars, pc, attempt, startFromNonce, plan, prev, simPending, simOK,
                   result, chosen, lastCheck, chainVars, events>>

\* wgSend.Wait() returns: the inclusion monitor starts (the preflight's simOK
\* flag left its scope with the simulation block).
SendJoin ==
    /\ pc = "send"
    /\ wgWait(sendPending)
    /\ pc' = "wait"
    /\ simOK' = FALSE
    /\ UNCHANGED <<p, world, otherVars, attempt, startFromNonce, plan, prev, simPending,
                   sendPending, result, chosen, lastCheck, chainVars, sentBundles, events>>

\* The hash the monitor watches: the last element of the signed list.
ourTx2 == Hash(plan.signedList[Len(plan.signedList)])

NoReceipt == [found |-> FALSE, block |-> 0, status |-> "none"]

\* ec.TransactionReceipt
receiptOf(h) ==
    IF \E r \in receipts : r.hash = h
    THEN LET r == CHOOSE r \in receipts : r.hash = h
         IN  [found |-> TRUE, block |-> r.block, status |-> r.status]
    ELSE NoReceipt

\* A faulty acceptance rule that does not look at the receipt's status.
receiptAcceptedAnyStatus(rcptErr, rcpt, targetBlock) ==
    ~rcptErr /\ rcpt.found /\ rcpt.block = targetBlock

\* The acceptance rule of the monitor for a receipt read (rcptErr: the read failed).
receiptAccepted(rcptErr, rcpt, targetBlock) ==
    ~rcptErr /\ rcpt.found /\ rcpt.block = targetBlock /\ rcpt.status = "success"

\* A faulty monitor that reports an advanced nonce as a plain miss.
checkInclusionNoRace(nonce, rcptErr, rcpt, startNonce, targetBlock) ==
    IF receiptAccepted(rcptErr, rcpt, targetBlock)
    THEN [incl |-> TRUE, reason |-> "included"]
    ELSE [incl |-> FALSE, reason |-> "not included"]

\* waitInclusionOrCompete from label CHECK on; nonce = Nil: NonceAt failed.
checkInclusion(nonce, rcptErr, rcpt, startNonce, targetBlock) ==
    IF nonce # Nil /\ nonce > startNonce
    THEN IF receiptAccepted(rcptErr, rcpt, targetBlock)
         THEN [incl |-> TRUE, reason |-> "included"]
         ELSE [incl |-> FALSE, reason |-> "competing nonce"]
    ELSE IF receiptAccepted(rcptErr, rcpt, targetBlock)
         THEN [incl |-> TRUE, reason |-> "included"]
         ELSE [incl |-> FALSE, reason |-> "not included"]

\* Run, after waitInclusionOrCompete returned (incl, reason).
afterWait(incl, reason) ==
    IF incl THEN Return(TRUE, reason, "") /\ UNCHANGED attempt
    ELSE IF reason = "competing nonce" THEN Return(FALSE, reason, "") /\ UNCHANGED attempt
    ELSE NextAttempt

\* One poll of the head: at or past the target block the monitor goes to
\* CHECK, otherwise (or when the read fails) it sleeps 300 ms and polls again.
MonitorPoll ==
    /\ pc = "wait"
    /\ ~cancelled
    /\ \E fail \in MayFail :
         /\ events' = events + (IF fail THEN 1 ELSE 0)
         /\ pc' = IF ~fail /\ head >= plan.targetBlock THEN "check" ELSE "wait"
    /\ UNCHANGED <<p, world, otherVars, attempt, startFromNonce, plan, prev, simPending, simOK,
                   sendPending, result, chosen, lastCheck, chainVars, sentBundles>>

\* The 45 s wait expires before the head reaches the target block.
MonitorTimeout ==
    /\ pc = "wait"
    /\ ~cancelled
    /\ events < MaxEvents
    /\ events' = events + 1
    /\ afterWait(FALSE, "timeout waiting block")
    /\ UNCHANGED <<p, world, otherVars, startFromNonce, plan, prev, simPending, simOK,
                   sendPending, chosen, lastCheck, chainVars, sentBundles>>

\* CHECK: the nonce read, the receipt read and Run's decision on the outcome.
MonitorCheck ==
    /\ pc = "check"
    /\ ~cancelled
    /\ \E E \in ErrSets({"nonce", "receipt"}, MaxEvents - events) :
         LET n   == IF "nonce" \in E THEN Nil ELSE chainLatest
             out == checkInclusion(n, "receipt" \in E, receiptOf(ourTx2),
                                   startFromNonce, plan.targetBlock)
         IN  /\ events' = events + Cardinality(E)
             /\ lastCheck' = [attempt |-> attempt, n |-> n]
             /\ afterWait(out.incl, out.reason)
    /\ UNCHANGED <<p, world, otherVars, startFromNonce, plan, prev, simPending, simOK,
                   sendPending, chosen, chainVars, sentBundles>>

\* ------------------------------------------------------------------- chain
\* Chain steps are taken where Run can observe them: before a read of the
\* chain.  Between two reads they commute with Run's own steps.
Running == pc \in {"attempt", "wait"} \/ (pc = "simonly" /\ simPending = {})

signedBy(txs, who) == SelectSeq(txs, LAMBDA t : t.signer = who)

\* A bundle can be built into the next block when its nonces are the next
\* ones of both signers.
Mineable(b) ==
    /\ b.target = head + 1
    /\ \A i \in DOMAIN signedBy(b.txs, "from") :
         signedBy(b.txs, "from")[i].tx.Nonce = chainLatest + (i - 1)
    /\ \A i \in DOMAIN signedBy(b.txs, "safe") :
         signedBy(b.txs, "safe")[i].tx.Nonce = chainSafeNonce + (i - 1)

\* The amount a signed transfer moves.
amountOf(stx) == stx.tx.Data[3]

\* The chain mines a block: without a transaction of the compromised EOA,
\* with the EOA's pending foreign transaction, or with a bundle of this run
\* (whose transfer succeeds or reverts; it reverts when the balance is short).
MineBlock ==
    /\ Running
    /\ events < MaxEvents
    /\ events' = events + 1
    /\ head' = head + 1
    /\ sentBundles' = {b \in sentBundles : b.target > head + 1}
    /\ \/ UNCHANGED <<chainLatest, chainPending, chainSafeNonce, tokenBal, minedBy, receipts>>
       \/ /\ chainPending > chainLatest
          /\ chainLatest' = chainLatest + 1
          /\ minedBy' = minedBy \cup {[nonce |-> chainLatest, by |-> "foreign"]}
          /\ UNCHANGED <<chainPending, chainSafeNonce, tokenBal, receipts>>
       \/ \E b \in sentBundles, status \in {"success", "failed"} :
            LET nFrom == Len(signedBy(b.txs, "from"))
                nSafe == Len(signedBy(b.txs, "safe"))
                xfer  == b.txs[Len(b.txs)]
            IN  /\ Mineable(b)
                /\ status = "success" => amountOf(xfer) <= tokenBal
                /\ chainLatest' = chainLatest + nFrom
                /\ chainPending' = Max(chainPending, chainLatest + nFrom)
                /\ chainSafeNonce' = chainSafeNonce + nSafe
                /\ tokenBal' = IF status = "success" THEN tokenBal - amountOf(xfer)
                               ELSE tokenBal
                /\ minedBy' = minedBy \cup
                       {[nonce |-> n, by |-> "own"] : n \in chainLatest .. (chainLatest + nFrom - 1)}
                /\ receipts' = receipts \cup
                       {[hash |-> Hash(xfer), block |-> head + 1, status |-> status]}
    /\ UNCHANGED <<runVars, world, otherVars>>

\* A foreign transaction of the compromised EOA enters the mempool.
\* The preflight is over and no send request has gone out yet.
BeforeSend == pc = "send" /\ sendPending = relaysOf(p)

ForeignBroadcast ==
    /\ Running \/ BeforeSend
    /\ events < MaxEvents
    /\ events' = events + 1
    /\ chainPending' = chainPending + 1
    /\ UNCHANGED <<runVars, world, otherVars, head, chainLatest, chainSafeNonce, tokenBal, minedBy,
                   receipts, sentBundles>>

\* Somebody else moves tokens of the compromised EOA away before a plan
\* reads the balance.
TokenSwept ==
    /\ pc = "attempt"
    /\ events < MaxEvents
    /\ events' = events + 1
    /\ \E left \in {0, 1} : left < tokenBal /\ tokenBal' = left
    /\ UNCHANGED <<runVars, world, otherVars, head, chainLatest, chainPending, chainSafeNonce, minedBy,
                   receipts, sentBundles>>

Next ==
    \/ RunStart
    \/ PlanAttempt
    \/ Exhausted
    \/ \E r \in relaysOf(p) : SimRelay(r)
    \/ SimJoin
    \/ \E r \in relaysOf(p) : SimOnlyRelay(r)
    \/ SimOnlyJoin
    \/ \E r \in relaysOf(p) : SendRelay(r)
    \/ SendJoin
    \/ MonitorPoll
    \/ MonitorTimeout
    \/ MonitorCheck
    \/ MineBlock
    \/ ForeignBroadcast
    \/ TokenSwept

Spec == Init /\ [][Next]_vars

\* ------------------------------------------------- Run under a cancelled ctx
\* The caller cancels ctx while Run is in its loop.
Cancel ==
    /\ pc \in {"attempt", "sim", "simonly", "send", "wait", "check"}
    /\ ~cancelled
    /\ cancelAt' = [fired |-> TRUE, attempt |-> attempt, pc |-> pc]
    /\ UNCHANGED <<mainVars, rescueVars, inspectorVars, clampVars, batchVars, mainBinVars, planVars, simVars, pauseVars, retryVars, preflightVars, sweepVars, gateVars, tipVars, memoVars>>

\* The top of the loop body under a cancelled ctx: the fee-history request
\* and latestBaseFee both fail and Run returns the error.
CancelledPlan ==
    /\ pc = "attempt"
    /\ attempt < p.Blocks
    /\ cancelled
    /\ Return(FALSE, "", "latestBaseFee failed")
    /\ UNCHANGED <<p, world, otherVars, attempt, startFromNonce, plan, prev, simPending, simOK,
                   sendPending, chosen, lastCheck, chainVars, sentBundles, events>>

\* Simulate-only under a cancelled ctx: the NonceAt read fails and reads 0.
CancelledSimOnlyJoin ==
    /\ pc = "simonly"
    /\ wgWait(simPending)
    /\ cancelled
    /\ IF ~simOK THEN NextAttempt
       ELSE Return(FALSE, "simulate only", "") /\ UNCHANGED attempt
    /\ UNCHANGED <<p, world, otherVars, startFromNonce, plan, prev, simPending, simOK, sendPending,
                   chosen, lastCheck, chainVars, sentBundles, events>>

\* waitInclusionOrCompete under a cancelled ctx: ctx.Done() is ready
\* ("timeout waiting block"), or both reads of CHECK fail ("not included").
CancelledWait ==
    /\ pc \in {"wait", "check"}
    /\ cancelled
    /\ afterWait(FALSE, IF pc = "wait" THEN "timeout waiting block" ELSE "not included")
    /\ UNCHANGED <<p, world, otherVars, startFromNonce, plan, prev, simPending, simOK,
                   sendPending, chosen, lastCheck, chainVars, sentBundles, events>>

CancelNext ==
    \/ RunStart
    \/ PlanAttempt
    \/ Exhausted
    \/ \E r \in relaysOf(p) : SimRelay(r)
    \/ SimJoin
    \/ \E r \in relaysOf(p) : SimOnlyRelay(r)
    \/ SimOnlyJoin
    \/ \E r \in relaysOf(p) : SendRelay(r)
    \/ SendJoin
    \/ MonitorPoll
    \/ MonitorTimeout
    \/ MonitorCheck
    \/ MineBlock
    \/ ForeignBroadcast
    \/ TokenSwept
    \/ Cancel
    \/ CancelledPlan
    \/ CancelledSimOnlyJoin
    \/ CancelledWait

SpecCancel == Init /\ [][CancelNext]_vars

\* --------------------------------------------- package eip7702: ExecuteRescue
\* Run is not running: the state the other entry points leave alone.
RunIdle ==
    /\ p = BaseParams /\ world = BaseWorld
    /\ pc = "off"
    /\ attempt = 0
    /\ startFromNonce = 0
    /\ plan = NoPlan
    /\ prev = NoPrev
    /\ simPending = {}
    /\ simOK = FALSE
    /\ sendPending = {}
    /\ result = NoResult
    /\ head = InitHead
    /\ chainLatest = InitNonce
    /\ chainPending = InitNonce
    /\ chainSafeNonce = InitSafeNonce
    /\ tokenBal = world.tokenBal
    /\ minedBy = {}
    /\ receipts = {}
    /\ sentBundles = {}
    /\ chosen = {}
    /\ lastCheck = NoCheck
    /\ events = 0

FlashbotsURL == "https://relay.flashbots.net"
BeaverURL == "https://rpc.beaverbuild.org"
BloxrouteURL == "https://api.blxrbdn.com"

\* strings.Contains(u, "flashbots") and strings.Contains(u, "blxrbdn.com")
\* over the URLs of the model.
ContainsFlashbots(u) == u = FlashbotsURL
ContainsBlxr(u) == u = BloxrouteURL

RelayLists ==
    {<<>>, <<FlashbotsURL>>, <<BeaverURL>>, <<BeaverURL, FlashbotsURL>>, <<BloxrouteURL>>}

Requests ==
    [AuthCount : {0, 3}, TipWei : {0, gweiToWei(3)}, RelayURLs : RelayLists,
     EnableSimulation : BOOLEAN]

RescueGas == 180000
DefaultAuthCount == 2
DefaultRescueTipGwei == 2
FirstAuthNonce == 0

\* PrepareFees: tip = tipWei (2 gwei when absent), cap = max(2*baseFee + tip, 2*tip).
PrepareFees(baseFee, tipWei) ==
    LET tip == IF tipWei = 0 THEN gweiToWei(DefaultRescueTipGwei) ELSE tipWei
    IN  [tip |-> tip, cap |-> Max(2 * baseFee + tip, 2 * tip)]

\* BuildAuthorizations: authorizations with nonces k .. k+count-1.
BuildAuthorizations(first, count) == [i \in 1..count |-> first + i - 1]

\* pickFlashbotsRelay with the fallback of an empty list left out.
pickFirstRelay(relays) ==
    IF \E i \in 1..Len(relays) : ContainsFlashbots(relays[i])
    THEN relays[CHOOSE i \in 1..Len(relays) :
                    /\ ContainsFlashbots(relays[i])
                    /\ \A j \in 1..(i - 1) : ~ContainsFlashbots(relays[j])]
    ELSE relays[1]

\* pickFlashbotsRelay: the first Flashbots-like relay, else the first relay,
\* else the public Flashbots relay.
pickFlashbotsRelay(relays) ==
    IF relays = <<>> THEN FlashbotsURL ELSE pickFirstRelay(relays)

methodsOfBlxrLast(url) ==
    LET methods == <<"eth_sendPrivateTransaction", "eth_sendPrivateRawTransaction",
                     "eth_sendRawTransaction">>
    IN  IF ContainsBlxr(url) THEN methods \o <<"blxr_private_tx">> ELSE methods

\* SendPrivate's methods for a relay, in order of preference.
methodsOf(url) ==
    LET methods == <<"eth_sendPrivateTransaction", "eth_sendPrivateRawTransaction",
                     "eth_sendRawTransaction">>
    IN  IF ContainsBlxr(url) THEN <<"blxr_private_tx">> \o methods ELSE methods

outsideRescue == <<mainVars, inspectorVars, clampVars, cancelAt, batchVars, mainBinVars, planVars, simVars, pauseVars, retryVars, preflightVars, sweepVars, gateVars, tipVars, memoVars>>

RescueInit ==
    /\ RunIdle /\ InspectorIdle /\ ClampIdle /\ cancelAt = NoCancel /\ BatchIdle /\ MainIdle /\ PlanIdle /\ SimIdle /\ PauseIdle /\ RetryIdle /\ PreflightIdle /\ SweepIdle /\ GateIdle /\ TipIdle /\ MemoIdle
    /\ req \in Requests
    /\ rescuePc = "start"
    /\ signed = NoTx
    /\ relayCalls = <<>>
    /\ results = <<>>
    /\ sendAt = <<1, 1>>
    /\ rescueErr = ""

RescueReturn(err) ==
    /\ rescuePc' = "done"
    /\ rescueErr' = err

\* ExecuteRescue, steps 1 to 5: fees, sponsor nonce, calldata, authorizations,
\* gas limit, build and sign.
RescueBuild ==
    /\ rescuePc = "start"
    /\ UNCHANGED <<outsideRescue, relayCalls, results, sendAt>>
    /\ \E failHeader \in BOOLEAN, failNonce \in BOOLEAN :
         LET q    == [req EXCEPT !.AuthCount = IF @ <= 0 THEN DefaultAuthCount ELSE @]
             fees == PrepareFees(20, q.TipWei)
         IN  /\ req' = q
             /\ IF failHeader \/ failNonce
                THEN /\ RescueReturn("rpc error")
                     /\ UNCHANGED signed
                ELSE /\ signed' = [Nonce |-> chainSafeNonce, GasTipCap |-> fees.tip,
                                   GasFeeCap |-> fees.cap, Gas |-> RescueGas,
                                   AuthList |-> BuildAuthorizations(FirstAuthNonce, q.AuthCount)]
                     /\ rescuePc' = IF q.EnableSimulation THEN "simulate" ELSE "send"
                     /\ UNCHANGED rescueErr

\* ExecuteRescue, the optional simulation: one eth_callBundle request.
RescueSimulate ==
    /\ rescuePc = "simulate"
    /\ UNCHANGED <<outsideRescue, req, signed, results, sendAt>>
    /\ relayCalls' = Append(relayCalls, [url |-> pickFlashbotsRelay(req.RelayURLs),
                                         method |-> "eth_callBundle"])
    /\ \E outcome \in {"http error", "reverted", "ok"} :
         CASE outcome = "http error" -> RescueReturn("simulation http error")
           [] outcome = "reverted"   -> RescueReturn("simulation reverted")
           [] outcome = "ok"         -> rescuePc' = "send" /\ UNCHANGED rescueErr

\* SendPrivate: one request of its loop over the relays and their methods.
RescueSend ==
    /\ rescuePc = "send"
    /\ sendAt[1] <= Len(req.RelayURLs)
    /\ UNCHANGED <<outsideRescue, req, signed, rescuePc, rescueErr>>
    /\ LET url == req.RelayURLs[sendAt[1]]
           m   == methodsOf(url)[sendAt[2]]
       IN  \E ok \in BOOLEAN :
             /\ relayCalls' = Append(relayCalls, [url |-> url, method |-> m])
             /\ results' = Append(results, [RelayURL |-> url, Accepted |-> ok,
                                            RequestMethod |-> m])
             /\ sendAt' = IF ok \/ sendAt[2] = Len(methodsOf(url))
                          THEN <<sendAt[1] + 1, 1>>
                          ELSE <<sendAt[1], sendAt[2] + 1>>

\* ExecuteRescue returns the response after SendPrivate's loop.
RescueDone ==
    /\ rescuePc = "send"
    /\ sendAt[1] > Len(req.RelayURLs)
    /\ RescueReturn("")
    /\ UNCHANGED <<outsideRescue, req, signed, relayCalls, results, sendAt>>

RescueNext ==
    \/ RescueBuild
    \/ RescueSimulate
    \/ RescueSend
    \/ RescueDone

SpecRescue == RescueInit /\ [][RescueNext]_vars

\* ------------------------------------------- token inspector: more findings
BlockFlags == {"Paused", "TransferDisabled", "OnlyWhitelisted", "BlacklistedFrom", "BlacklistedTo"}
WhitelistSides == {"FromWhitelisted", "ToWhitelisted"}

\* Every TokenRestrictions value.
Descriptors ==
    [Paused : BOOLEAN, TransferDisabled : BOOLEAN, OnlyWhitelisted : BOOLEAN,
     FromWhitelisted : {NilBool, "true", "false"}, ToWhitelisted : {NilBool, "true", "false"},
     BlacklistedFrom : BOOLEAN, BlacklistedTo : BOOLEAN]

outsideInspector == <<mainVars, rescueVars, clampVars, cancelAt, batchVars, mainBinVars, planVars, simVars, pauseVars, retryVars, preflightVars, sweepVars, gateVars, tipVars, memoVars>>

InspectorInit ==
    /\ RunIdle /\ RescueIdle /\ ClampIdle /\ cancelAt = NoCancel /\ BatchIdle /\ MainIdle /\ PlanIdle /\ SimIdle /\ PauseIdle /\ RetryIdle /\ PreflightIdle /\ SweepIdle /\ GateIdle /\ TipIdle /\ MemoIdle
    /\ tr0 \in Descriptors
    /\ tr = tr0

\* A probe sets a further block flag (out.X = true).
SetFlag(f) ==
    /\ ~tr[f]
    /\ tr' = [tr EXCEPT ![f] = TRUE]
    /\ UNCHANGED <<tr0, outsideInspector>>

\* whitelisted(addr) answers: an unknown whitelist result becomes a known one.
LearnWhitelisted(side, v) ==
    /\ tr[side] = NilBool
    /\ tr' = [tr EXCEPT ![side] = v]
    /\ UNCHANGED <<tr0, outsideInspector>>

InspectorNext ==
    \/ \E f \in BlockFlags : SetFlag(f)
    \/ \E side \in WhitelistSides, v \in {"true", "false"} : LearnWhitelisted(side, v)

SpecInspector == InspectorInit /\ [][InspectorNext]_vars

\* ------------------------------------------------ the clamp step, repeated
MaxAmount == 10
MaxClamps == 3

outsideClamp == <<mainVars, rescueVars, inspectorVars, cancelAt, batchVars, mainBinVars, planVars, simVars, pauseVars, retryVars, preflightVars, sweepVars, gateVars, tipVars, memoVars>>

ClampInit ==
    /\ RunIdle /\ RescueIdle /\ InspectorIdle /\ cancelAt = NoCancel /\ BatchIdle /\ MainIdle /\ PlanIdle /\ SimIdle /\ PauseIdle /\ RetryIdle /\ PreflightIdle /\ SweepIdle /\ GateIdle /\ TipIdle /\ MemoIdle
    /\ clampIn \in [amount : 0..MaxAmount, bal : {Nil} \cup 0..MaxAmount]
    /\ amountWei = clampIn.amount
    /\ payloads = <<>>

\* The transfer Run signs for an amount, everything else being equal.
transferPayload(amount) ==
    signTx(buildDynamicTx(BaseParams.ChainID, InitNonce, "token", 0, FallbackTransferGas,
                          gweiToWei(DefaultTipGweiBase), gweiToWei(DefaultTipGweiBase),
                          EncodeERC20Transfer("to", amount)),
           BaseParams.ChainID, "from")

\* Run's clamp of p.AmountWei against the balance read, then the calldata and
\* the signed transfer.
ClampStep ==
    /\ Len(payloads) < MaxClamps
    /\ amountWei' = clampAmount(amountWei, clampIn.bal)
    /\ payloads' = Append(payloads, transferPayload(amountWei'))
    /\ UNCHANGED <<clampIn, outsideClamp>>

ClampNext == ClampStep

SpecClamp == ClampInit /\ [][ClampNext]_vars

\* ------------------------------------------- cmd/batchcli: the batch processor
MaxRows == 3

\* What csv.Reader.Read returns for a line: a record, or an error (a line
\* with a stray quote: csv.ErrBareQuote, csv.ErrQuote).
Rec(row) == [err |-> FALSE, row |-> row]
ReadErr == [err |-> TRUE, row |-> <<>>]

Lines ==
    {Rec(<<"">>), Rec(<<"token", "privateKey">>), Rec(<<"0xT1">>), Rec(<<"0xT1", "k1">>),
     Rec(<<"zz", "k1">>), Rec(<<"0xT1", "">>), ReadErr}

RECURSIVE SeqsUpTo(_, _)
SeqsUpTo(S, n) ==
    IF n = 0 THEN {<<>>}
    ELSE LET shorter == SeqsUpTo(S, n - 1)
         IN  shorter \cup {Append(q, x) : q \in shorter, x \in S}

\* skipRow: an empty record, a blank one, or the header on the first line.
skipRow(row, n) ==
    \/ Len(row) = 0
    \/ Len(row) = 1 /\ row[1] = ""
    \/ n = 1 /\ row = <<"token", "privateKey">>

\* common.IsHexAddress and hexToECDSA over the strings of the model.
IsHexAddress(t) == t = "0xT1"
validKey(k) == k = "k1"

\* What the RPC answers let processOne conclude for a well-formed pair.
PairReasons == {"", "no token balance", "token restricted"}

\* processOne: the reason of a bad pair ("" for a good one).
processOne(tokenHex, privateHex, rpcReason) ==
    IF ~IsHexAddress(tokenHex) THEN "invalid token address"
    ELSE IF ~validKey(privateHex) THEN "invalid private key"
    ELSE rpcReason

outsideBatch == <<mainVars, rescueVars, inspectorVars, clampVars, cancelAt, mainBinVars, planVars, simVars, pauseVars, retryVars, preflightVars, sweepVars, gateVars, tipVars, memoVars>>

BatchInit ==
    /\ RunIdle /\ RescueIdle /\ InspectorIdle /\ ClampIdle /\ cancelAt = NoCancel /\ MainIdle /\ PlanIdle /\ SimIdle /\ PauseIdle /\ RetryIdle /\ PreflightIdle /\ SweepIdle /\ GateIdle /\ TipIdle /\ MemoIdle
    /\ data \in SeqsUpTo(Lines, MaxRows)
    /\ lineNo = 0
    /\ okW = <<>>
    /\ badW = <<>>
    /\ batchPc = "run"

\* One iteration of processBytes' loop over a record the reader parsed.
ProcessRow ==
    /\ batchPc = "run"
    /\ lineNo < Len(data)
    /\ ~data[lineNo + 1].err
    /\ lineNo' = lineNo + 1
    /\ LET row == data[lineNo + 1].row
       IN  IF skipRow(row, lineNo')
           THEN UNCHANGED <<okW, badW>>
           ELSE IF Len(row) < 2
           THEN /\ badW' = Append(badW, [line |-> lineNo', reason |-> "not enough columns"])
                /\ UNCHANGED okW
           ELSE \E rpcReason \in PairReasons :
                  LET reason == processOne(row[1], row[2], rpcReason)
                  IN  IF reason # ""
                      THEN /\ badW' = Append(badW, [line |-> lineNo', reason |-> reason])
                           /\ UNCHANGED okW
                      ELSE /\ okW' = Append(okW, [line |-> lineNo', reason |-> ""])
                           /\ UNCHANGED badW
    /\ UNCHANGED <<data, batchPc, outsideBatch>>

\* reader.Read returns an error other than io.EOF: processBytes returns it.
ReadFails ==
    /\ batchPc = "run"
    /\ lineNo < Len(data)
    /\ data[lineNo + 1].err
    /\ batchPc' = "failed"
    /\ UNCHANGED <<data, lineNo, okW, badW, outsideBatch>>

\* reader.Read returns io.EOF: processBytes returns nil.
ReadEOF ==
    /\ batchPc = "run"
    /\ lineNo = Len(data)
    /\ batchPc' = "done"
    /\ UNCHANGED <<data, lineNo, okW, badW, outsideBatch>>

BatchNext ==
    \/ ProcessRow
    \/ ReadFails
    \/ ReadEOF

SpecBatch == BatchInit /\ [][BatchNext]_vars

\* ------------------------------------------------ cmd/batchcli: the binary
AppConfigs == [inputPath : {"", "pairs.csv"}, rpcURL : {"", "http://rpc"},
               safePrivateHex : {"", "zz", "k1"}]
Hosts == [dialOK : BOOLEAN, readable : BOOLEAN, outputsOK : BOOLEAN, readerOK : BOOLEAN]

ExitMisconfigured == 2
ExitInternal == 1
ExitCompleted == 0

outsideMain == <<mainVars, rescueVars, inspectorVars, clampVars, cancelAt, batchVars, planVars, simVars, pauseVars, retryVars, preflightVars, sweepVars, gateVars, tipVars, memoVars>>

MainInit ==
    /\ RunIdle /\ RescueIdle /\ InspectorIdle /\ ClampIdle /\ cancelAt = NoCancel /\ BatchIdle /\ PlanIdle /\ SimIdle /\ PauseIdle /\ RetryIdle /\ PreflightIdle /\ SweepIdle /\ GateIdle /\ TipIdle /\ MemoIdle
    /\ cfg \in AppConfigs
    /\ host \in Hosts
    /\ mainPc = "load"
    /\ exitCode = Nil

\* askExitAndQuit(code), and main's return.
Exit(code) == mainPc' = "exited" /\ exitCode' = code

\* mustLoadConfig: a missing input path, RPC URL or SAFE key exits with 2.
LoadConfig ==
    /\ mainPc = "load"
    /\ IF cfg.inputPath = "" \/ cfg.rpcURL = "" \/ cfg.safePrivateHex = ""
       THEN Exit(ExitMisconfigured)
       ELSE mainPc' = "run" /\ UNCHANGED exitCode
    /\ UNCHANGED <<cfg, host, outsideMain>>

\* run's error, "" for nil: dial, SAFE key, input file, output files,
\* processBytes.
runError(c, h) ==
    IF ~h.dialOK THEN "dial rpc"
    ELSE IF ~validKey(c.safePrivateHex) THEN "SAFE key"
    ELSE IF ~h.readable THEN "open input"
    ELSE IF ~h.outputsOK THEN "open outputs"
    ELSE IF ~h.readerOK THEN "csv"
    ELSE ""

\* main after mustLoadConfig: run's error exits with 1, otherwise main returns.
RunMain ==
    /\ mainPc = "run"
    /\ Exit(IF runError(cfg, host) # "" THEN ExitInternal ELSE ExitCompleted)
    /\ UNCHANGED <<cfg, host, outsideMain>>

MainNext ==
    \/ LoadConfig
    \/ RunMain

SpecMain == MainInit /\ [][MainNext]_vars
\* ------------------------------------------------ Run: one attempt's planning
\* The fees a third party's pending transaction may carry (wei, model units).
PendingTxs == [tip : {10, 50}, cap : {70, 100}]

\* Base fees and gas estimates (0: the estimate fails), round and not.
PlanBaseFees == {20, 23}
PlanEsts == {0, 50000, 50003}
PlanSafeBals == {6000000, BaseWorld.safeBal}

outsidePlan == <<mainVars, rescueVars, inspectorVars, clampVars, cancelAt, batchVars, mainBinVars, simVars, pauseVars, retryVars, preflightVars, sweepVars, gateVars, tipVars, memoVars>>

PlanInit ==
    /\ RunIdle /\ RescueIdle /\ InspectorIdle /\ ClampIdle /\ cancelAt = NoCancel /\ BatchIdle /\ MainIdle /\ SimIdle /\ PauseIdle /\ RetryIdle /\ PreflightIdle /\ SweepIdle /\ GateIdle /\ TipIdle /\ MemoIdle
    /\ planIn \in [p : {withDefaults(c) : c \in Configs}, attempt : 0..1,
                   baseFee : PlanBaseFees, est : PlanEsts, safeBal : PlanSafeBals,
                   pendingNonce : {InitNonce, InitNonce + 1}, pendingTx : PendingTxs]
    /\ planOut = NoPlan

\* One pass of the attempt loop up to the signing.  Of a pending transaction
\* Run reads the two nonces and nothing else.
PlanOnce ==
    /\ planOut = NoPlan
    /\ \E sg \in Suggests :
         planOut' = planOf(planIn.p, planIn.attempt, InitHead, planIn.baseFee, InitNonce,
                           planIn.pendingNonce,
                           attemptTip(planIn.p, planIn.attempt, NoFeeHist, sg),
                           InitSafeNonce, BaseWorld.tokenBal, planIn.est, planIn.safeBal)
    /\ UNCHANGED <<planIn, outsidePlan>>

PlanNext == PlanOnce

SpecPlan == PlanInit /\ [][PlanNext]_vars
\* --------------------------------------------------- one relay's simulation
\* Per-transaction entries of a simulation result.
okTx == [error |-> "", revert |-> ""]
errTx == [error |-> "execution reverted", revert |-> ""]
revTx == [error |-> "", revert |-> "0x08c379a0"]

Arrived(status, rpcErr, res) ==
    [transportErr |-> FALSE, status |-> status, rpcErr |-> rpcErr, result |-> res]

SimResult(rs) == [present |-> TRUE, results |-> rs]

\* What a relay may answer: nothing (the request fails), a JSON-RPC error,
\* or a result array.
Responses ==
    {NoResponse}
    \cup {Arrived(200, m, NoSimResult) :
            m \in {"execution error", "simulation not supported", "method not found"}}
    \cup {Arrived(200, "", SimResult(rs)) :
            rs \in {<<>>, <<okTx>>, <<okTx, okTx>>, <<okTx, errTx>>, <<revTx>>}}
    \cup {Arrived(500, "", SimResult(<<okTx>>)), Arrived(200, "", NoSimResult)}

\* Run's classic preflight: eth_callBundle through the relay client, which
\* returns an error for a failed request, a bad status or a JSON-RPC error
\* and decodes the result otherwise; then the scan of resp.Results.
classicSimOK(resp) ==
    LET err2 == resp.transportErr \/ resp.status # 200 \/ resp.rpcErr # ""
    IN  /\ ~err2
        /\ resp.result.present =>
              \A i \in DOMAIN resp.result.results :
                 resp.result.results[i].error = "" /\ resp.result.results[i].revert = ""

\* simulateMevBundle, the Cloud-API branch (blxr_simulate_bundle).
simulateBlxr(resp) ==
    IF resp.transportErr THEN [ok |-> FALSE, err |-> "transport"]
    ELSE IF resp.status # 200 THEN [ok |-> FALSE, err |-> "http"]
    ELSE IF resp.rpcErr # ""
    THEN IF resp.rpcErr = "simulation not supported"
         THEN [ok |-> FALSE, err |-> ""]
         ELSE [ok |-> FALSE, err |-> resp.rpcErr]
    ELSE [ok |-> /\ resp.result.present
                 /\ \A i \in DOMAIN resp.result.results :
                       resp.result.results[i].error = "" /\ resp.result.results[i].revert = "",
          err |-> ""]

\* simOnce: one JSON-RPC simulate request; the status is not looked at and
\* the result is passed on as it came.
simOnce(resp) ==
    IF resp.transportErr THEN [ok |-> FALSE, err |-> "transport"]
    ELSE IF resp.rpcErr # "" THEN [ok |-> FALSE, err |-> resp.rpcErr]
    ELSE [ok |-> TRUE, err |-> ""]

\* The errors after which strategy mode tries the other method name.
methodMissing(err) == err = "method not found"

\* simulateMevBundle(url, ...): (ok, err) of the triple it returns.
simulateMevBundle(kind, useStrategy, resp, resp2) ==
    IF kind = "cloud" THEN simulateBlxr(resp)
    ELSE IF ~useStrategy THEN simOnce(resp)
    ELSE IF simOnce(resp).err = "" THEN simOnce(resp)
    ELSE IF methodMissing(simOnce(resp).err) THEN simOnce(resp2)
    ELSE simOnce(resp)

\* What Run tells OnSimResult for a relay on the matchmaker path.
matchmakerSimOK(out) == out.ok /\ out.err = ""

outsideSim == <<mainVars, rescueVars, inspectorVars, clampVars, cancelAt, batchVars, mainBinVars, planVars, pauseVars, retryVars, preflightVars, sweepVars, gateVars, tipVars, memoVars>>

SimInit ==
    /\ RunIdle /\ RescueIdle /\ InspectorIdle /\ ClampIdle /\ cancelAt = NoCancel /\ BatchIdle /\ MainIdle /\ PlanIdle /\ PauseIdle /\ RetryIdle /\ PreflightIdle /\ SweepIdle /\ GateIdle /\ TipIdle /\ MemoIdle
    /\ simReport = "none"
    /\ \E kind \in {"classic", "matchmaker", "cloud"}, s \in BOOLEAN, r \in Responses,
          r2 \in Responses :
         /\ (kind # "matchmaker") => ~s
         /\ ~(kind = "matchmaker" /\ s) => r2 = NoResponse
         /\ simIn = [kind |-> kind, useStrategy |-> s, resp |-> r, resp2 |-> r2]

\* The relay's simulate goroutine reports its result.
SimulateOne ==
    /\ simReport = "none"
    /\ simReport' =
         IF IF simIn.kind = "classic"
            THEN classicSimOK(simIn.resp)
            ELSE matchmakerSimOK(simulateMevBundle(simIn.kind, simIn.useStrategy,
                                                   simIn.resp, simIn.resp2))
         THEN "ok" ELSE "failed"
    /\ UNCHANGED <<simIn, outsideSim>>

SimNext == SimulateOne

SpecSim == SimInit /\ [][SimNext]_vars
\* ------------------------------------------------------ the pause probe
\* pausedSigs: the selectors, in the order they are called (paused(),
\* isPaused(), transfersPaused(), tradingPaused(), isTradingPaused(),
\* pausedTransfers(), globalPaused(), transferEnabled(), isTransferEnabled(),
\* tradingEnabled(), isTradingEnabled()).
pausedSigs ==
    << <<92, 151, 90, 187>>, <<63, 75, 168, 58>>, <<81, 223, 249, 137>>,
       <<92, 112, 29, 47>>, <<132, 98, 21, 28>>, <<46, 26, 125, 77>>,
       <<11, 59, 175, 214>>, <<156, 106, 59, 124>>, <<117, 241, 43, 33>>,
       <<79, 43, 233, 31>>, <<13, 254, 22, 129>> >>

\* Strings as sequences of character codes.
hexDigit(n) == IF n < 10 THEN 48 + n ELSE 87 + n

\* hex.EncodeToString
EncodeToString(bs) ==
    [i \in 1..(2 * Len(bs)) |->
        IF i % 2 = 1 THEN hexDigit(bs[(i + 1) \div 2] \div 16)
        ELSE hexDigit(bs[i \div 2] % 16)]

\* strings.Contains
Contains(s, sub) ==
    \E i \in 1..(Len(s) - Len(sub) + 1) : SubSeq(s, i, i + Len(sub) - 1) = sub

\* "enabled"
EnabledWord == <<101, 110, 97, 98, 108, 101, 100>>

\* CheckPaused: the first getter that answers decides.
RECURSIVE CheckPausedFrom(_, _)
CheckPausedFrom(ans, i) ==
    IF i > Len(pausedSigs) THEN [known |-> FALSE, paused |-> FALSE]
    ELSE IF ans[i] = Nil THEN CheckPausedFrom(ans, i + 1)
    ELSE IF Contains(EncodeToString(pausedSigs[i]), EnabledWord)
    THEN [known |-> TRUE, paused |-> ans[i] = 0]
    ELSE [known |-> TRUE, paused |-> ans[i] = 1]

\* The getters that answer at once in the tokens the model probes.
MaxPresent == 2

GetterAnswers ==
    {a \in [1..Len(pausedSigs) -> {Nil, 0, 1}] :
        Cardinality({i \in 1..Len(pausedSigs) : a[i] # Nil}) <= MaxPresent}

outsidePause == <<mainVars, rescueVars, inspectorVars, clampVars, cancelAt, batchVars, mainBinVars, planVars, simVars, retryVars, preflightVars, sweepVars, gateVars, tipVars, memoVars>>

PauseInit ==
    /\ RunIdle /\ RescueIdle /\ InspectorIdle /\ ClampIdle /\ cancelAt = NoCancel /\ BatchIdle /\ MainIdle /\ PlanIdle /\ SimIdle /\ RetryIdle /\ PreflightIdle /\ SweepIdle /\ GateIdle /\ TipIdle /\ MemoIdle
    /\ answers \in GetterAnswers
    /\ probe = NoProbe

\* CheckRestrictions up to its first return: CheckPaused, then Paused.
ProbePaused ==
    /\ ~probe.done
    /\ LET r == CheckPausedFrom(answers, 1)
       IN  probe' = [done |-> TRUE, known |-> r.known, paused |-> r.paused,
                     Paused |-> r.known /\ r.paused]
    /\ UNCHANGED <<answers, outsidePause>>

PauseNext == ProbePaused

SpecPause == PauseInit /\ [][PauseNext]_vars
\* ------------------------------------------------- the call with retry
\* Errors of an eth_call, by their text.
ErrRevert == "execution reverted"
ErrRateLimit == "429 Too Many Requests"
ErrTimeout == "context deadline exceeded"
ErrUnavailable == "503 Service Unavailable"
ErrEOF == "EOF"
ErrReset == "read: connection reset by peer"

RpcErrors == {ErrRevert, ErrRateLimit, ErrTimeout, ErrUnavailable, ErrEOF, ErrReset}

\* An answer of ec.CallContract: the returned bytes (the last byte is what
\* the callers look at) or an error.
Returned(bytes) == [err |-> "", ret |-> bytes]
Failed(e) == [err |-> e, ret |-> <<>>]

CallOutcomes == {Returned(<<>>), Returned(<<1>>), Returned(<<0>>)} \cup {Failed(e) : e \in RpcErrors}

\* strings.Contains(s, "Too Many Requests") || strings.Contains(s, "-32005")
isRateLimitError(err) == err = ErrRateLimit

BackoffMs == 200
maxAttempts == 3

\* callWithRetry, from attempt attemptNo on: every error is slept on and
\* tried again while attempts remain.
RECURSIVE callWithRetryFrom(_, _, _, _)
callWithRetryFrom(outs, attemptNo, backoff, sleeps) ==
    LET out == outs[attemptNo]
    IN  IF out.err = ""
        THEN [done |-> TRUE, ret |-> out.ret, err |-> "", calls |-> attemptNo, sleeps |-> sleeps]
        ELSE IF attemptNo < maxAttempts
        THEN callWithRetryFrom(outs, attemptNo + 1,
                               IF isRateLimitError(out.err) THEN backoff * 2 ELSE backoff,
                               Append(sleeps, backoff))
        ELSE [done |-> TRUE, ret |-> <<>>, err |-> out.err, calls |-> attemptNo,
              sleeps |-> sleeps]

callWithRetry(outs) == callWithRetryFrom(outs, 1, BackoffMs, <<>>)

outsideRetry == <<mainVars, rescueVars, inspectorVars, clampVars, cancelAt, batchVars, mainBinVars, planVars, simVars, pauseVars, preflightVars, sweepVars, gateVars, tipVars, memoVars>>

RetryInit ==
    /\ RunIdle /\ RescueIdle /\ InspectorIdle /\ ClampIdle /\ cancelAt = NoCancel /\ BatchIdle /\ MainIdle /\ PlanIdle /\ SimIdle /\ PauseIdle /\ PreflightIdle /\ SweepIdle /\ GateIdle /\ TipIdle /\ MemoIdle
    /\ callOuts \in [1..maxAttempts -> CallOutcomes]
    /\ callRes = NoCallRes

CallWithRetry ==
    /\ ~callRes.done
    /\ callRes' = callWithRetry(callOuts)
    /\ UNCHANGED <<callOuts, outsideRetry>>

RetryNext == CallWithRetry

SpecRetry == RetryInit /\ [][RetryNext]_vars
\* ------------------------------------------------- the transfer preflight
\* revertReason: the error's text from "execution reverted" on.
revertReason(e) == e

\* PreflightTransfer: the classic probe (eth_call with retry, then the gas
\* estimate when the token returns no data).
PreflightTransfer(in) ==
    LET r == callWithRetry(in.outs)
    IN  IF r.err # "" THEN [ok |-> FALSE, why |-> revertReason(r.err), err |-> ""]
        ELSE IF Len(r.ret) = 0
        THEN IF in.est = "" THEN [ok |-> TRUE, why |-> "", err |-> ""]
             ELSE [ok |-> FALSE, why |-> "transfer would revert", err |-> ""]
        ELSE IF r.ret[Len(r.ret)] = 1 THEN [ok |-> TRUE, why |-> "", err |-> ""]
        ELSE [ok |-> FALSE, why |-> "transfer() returned false", err |-> ""]

\* What eth_call with the code override answers: an error, or the result
\* string: "", "0x", a 32-byte word ending in 1 or in 0, or text that is not hex.
OverrideAnswer(res) == [err |-> "", ret |-> res]

OverrideOutcomes ==
    {Failed(ErrRevert), Failed(ErrTimeout), Failed(ErrUnavailable)}
    \cup {OverrideAnswer(r) : r \in {"", "0x", "0x..01", "0x..00", "0xzz"}}

\* simulateTransferWithOverride
simulateTransferWithOverride(out) ==
    IF out.err # "" THEN [ok |-> FALSE, why |-> "", err |-> ""]
    ELSE IF out.ret = "" \/ out.ret = "0x" THEN [ok |-> TRUE, why |-> "", err |-> ""]
    ELSE IF out.ret = "0xzz" THEN [ok |-> FALSE, why |-> "", err |-> "bad eth_call result"]
    ELSE IF out.ret = "0x..01" THEN [ok |-> TRUE, why |-> "", err |-> ""]
    ELSE [ok |-> FALSE, why |-> "", err |-> ""]

\* PreflightTransfer7702: direct first, then the router path through the pair.
PreflightTransfer7702(in) ==
    IF in.amount = Nil \/ in.amount = 0 THEN [ok |-> FALSE, why |-> "no balance", err |-> ""]
    ELSE IF ~in.rc THEN PreflightTransfer(in)
    ELSE LET d == simulateTransferWithOverride(in.direct)
             t == simulateTransferWithOverride(in.toPair)
         IN  IF d.err # "" THEN [ok |-> FALSE, why |-> "preflight error", err |-> ""]
             ELSE IF d.ok THEN [ok |-> TRUE, why |-> "route=direct", err |-> ""]
             ELSE IF ~in.pair THEN [ok |-> FALSE, why |-> "no v2 pair for router path", err |-> ""]
             ELSE IF t.err # "" THEN [ok |-> FALSE, why |-> "preflight error", err |-> ""]
             ELSE IF t.ok THEN [ok |-> TRUE, why |-> "route=router", err |-> ""]
             ELSE [ok |-> FALSE, why |-> "blocked in 7702 context", err |-> ""]

\* isTransientNetworkError: deadline, timeouts, EOF, connection reset, 502/503/504.
isTransientNetworkError(err) == err \in {ErrTimeout, ErrEOF, ErrReset, ErrUnavailable}

\* classifyRPCError
classifyRPCError(err) ==
    IF err = "" THEN ""
    ELSE IF err = ErrTimeout THEN "rpc_timeout"
    ELSE IF err \in {ErrReset, ErrEOF} THEN "rpc_unavailable"
    ELSE IF err = ErrRateLimit THEN "rpc_rate_limited"
    ELSE "rpc_error"

\* The attempts preflightWithRetry7702 is configured with.
PreflightAttempts == 2

\* The answers the classic probe's calls may get.
PfCallOutcomes ==
    {Returned(<<>>), Returned(<<1>>), Returned(<<0>>), Failed(ErrRevert), Failed(ErrTimeout)}

PfInputs ==
    {[NoPfIn EXCEPT !.amount = 5, !.outs = o, !.est = e] :
        o \in [1..maxAttempts -> PfCallOutcomes], e \in {"", ErrRevert}}
    \cup {[NoPfIn EXCEPT !.amount = 5, !.outs = [k \in 1..maxAttempts |-> Returned(<<1>>)],
                         !.rc = TRUE, !.direct = d, !.pair = pr, !.toPair = t] :
            d \in OverrideOutcomes, pr \in BOOLEAN, t \in OverrideOutcomes}
    \cup {[NoPfIn EXCEPT !.outs = [k \in 1..maxAttempts |-> Returned(<<1>>)], !.rc = r] :
            r \in BOOLEAN}

outsidePreflight == <<mainVars, rescueVars, inspectorVars, clampVars, cancelAt, batchVars, mainBinVars, planVars, simVars, pauseVars, retryVars, sweepVars, gateVars, tipVars, memoVars>>

PreflightInit ==
    /\ RunIdle /\ RescueIdle /\ InspectorIdle /\ ClampIdle /\ cancelAt = NoCancel /\ BatchIdle /\ MainIdle /\ PlanIdle /\ SimIdle /\ PauseIdle /\ RetryIdle /\ SweepIdle /\ GateIdle /\ TipIdle /\ MemoIdle
    /\ pfIn \in PfInputs
    /\ pfTry = 1
    /\ pfOut = NoTriple
    /\ pfReason = NoReason

\* One pass of preflightWithRetry7702's loop.
PreflightAttempt ==
    /\ ~pfReason.done
    /\ pfTry <= PreflightAttempts
    /\ LET out == PreflightTransfer7702(pfIn)
       IN  /\ pfOut' = out
           /\ IF out.err # "" /\ isTransientNetworkError(out.err) /\ pfTry < PreflightAttempts
              THEN /\ pfTry' = pfTry + 1
                   /\ pfIn' \in PfInputs
                   /\ UNCHANGED pfReason
              ELSE /\ UNCHANGED <<pfTry, pfIn>>
                   /\ pfReason' =
                        IF out.err # ""
                        THEN [done |-> TRUE, class |-> classifyRPCError(out.err), text |-> out.err]
                        ELSE IF ~out.ok
                        THEN [done |-> TRUE, class |-> "",
                              text |-> IF out.why = ""
                                       THEN "not transferable: preflight 7702 failed"
                                       ELSE out.why]
                        ELSE [done |-> TRUE, class |-> "", text |-> ""]
    /\ UNCHANGED outsidePreflight

PreflightNext == PreflightAttempt

SpecPreflight == PreflightInit /\ [][PreflightNext]_vars
\* ------------------------------------------------- delegated-code batch

\* The rows one batch file may hold.
MaxSweepRows == 3

\* What a CSV row can be: too short, malformed, with a key that does not match,
\* with a balance that cannot be read, with a zero balance, or usable.
RowKinds == {"short", "malformed", "badkey", "balErr", "zero", "ok"}

\* The override probes' answers for a usable row.
SweepProbes ==
    {[NoPfIn EXCEPT !.amount = 5, !.rc = TRUE, !.direct = d, !.pair = pr, !.toPair = t] :
        d \in {OverrideAnswer("0x..01"), OverrideAnswer("0x..00"), Failed(ErrRevert)},
        pr \in BOOLEAN,
        t \in {OverrideAnswer("0x..01"), OverrideAnswer("0x..00")}}

\* A row with everything the loop body reads: the probe answers, the swap
\* preference (SWAP_ONLY or the 4th column), the router quote, and the step
\* that fails before the transaction is built, if any.
SweepRowsIn ==
    [kind : RowKinds \ {"ok"}, pf : {NoPfIn}, preferSwap : {FALSE}, sellOK : {FALSE}, fail : {"none"}]
    \cup [kind : {"ok"}, pf : SweepProbes, preferSwap : BOOLEAN, sellOK : BOOLEAN,
          fail : {"none", "pack", "auth", "fee"}]

\* The route the loop body settles on.
routeOf(row) ==
    IF ~row.preferSwap /\ PreflightTransfer7702(row.pf).ok THEN "transfer" ELSE "sell-v2"

\* The delegate function the calldata packs.
calldataOf(row) == IF routeOf(row) = "transfer" THEN "sweepToken" ELSE "sellToETH_V2"

\* The row reaches BuildSetCodeTx and the build succeeds (one authorization is
\* always present).
built(row) ==
    /\ row.kind = "ok"
    /\ (routeOf(row) = "sell-v2" => row.sellOK)
    /\ row.fail = "none"

bumpsNonceEveryRow(row) == TRUE

\* The rows after which nextNonce++ runs.
bumpsNonce(row) == built(row)

\* The sponsor key parsed when the binary started (mustAddrFromPK), so parsing
\* it again, signing with it and encoding the signed transaction succeed: a
\* built row is handed to SendPrivate.
sent(row) == built(row)

outsideSweep == <<mainVars, rescueVars, inspectorVars, clampVars, cancelAt, batchVars, mainBinVars, planVars, simVars, pauseVars, retryVars, preflightVars, gateVars, tipVars, memoVars>>

SweepInit ==
    /\ RunIdle /\ RescueIdle /\ InspectorIdle /\ ClampIdle /\ cancelAt = NoCancel /\ BatchIdle /\ MainIdle /\ PlanIdle /\ SimIdle /\ PauseIdle /\ RetryIdle /\ PreflightIdle /\ GateIdle /\ TipIdle /\ MemoIdle
    /\ sweepPc = "start"
    /\ rowIdx = 0
    /\ nextNonce = 0
    /\ handed = <<>>

\* EstimateSponsorNonce: the sponsor's nonce at the latest block, or an error
\* that ends the batch.
SweepStart ==
    /\ sweepPc = "start"
    /\ \E okRead \in BOOLEAN :
          IF okRead THEN sweepPc' = "rows" /\ nextNonce' = InitSafeNonce
          ELSE sweepPc' = "error" /\ UNCHANGED nextNonce
    /\ UNCHANGED <<rowIdx, handed, outsideSweep>>

\* One pass of the row loop.
SweepRow(row) ==
    /\ sweepPc = "rows"
    /\ rowIdx < MaxSweepRows
    /\ rowIdx' = rowIdx + 1
    /\ nextNonce' = IF bumpsNonce(row) THEN nextNonce + 1 ELSE nextNonce
    /\ handed' = IF sent(row)
                 THEN Append(handed, [row |-> rowIdx + 1, nonce |-> nextNonce,
                                      method |-> calldataOf(row),
                                      why |-> PreflightTransfer7702(row.pf).why,
                                      preferSwap |-> row.preferSwap])
                 ELSE handed
    /\ UNCHANGED <<sweepPc, outsideSweep>>

\* The file has no more rows.
SweepFinish ==
    /\ sweepPc = "rows"
    /\ sweepPc' = "done"
    /\ UNCHANGED <<rowIdx, nextNonce, handed, outsideSweep>>

SweepNext ==
    \/ SweepStart
    \/ \E row \in SweepRowsIn : SweepRow(row)
    \/ SweepFinish

SpecSweep == SweepInit /\ [][SweepNext]_vars
\* ------------------------------------------------- RPC concurrency gate

\* The goroutines that call through the gate.
MaxCallers == 2

Callers == 1..MaxCallers

DefaultGate == 16

MaxGate == 256

\* What BATCH_RPC_MAX_CONCURRENCY may hold: unset or not a number (Nil), or a
\* number.
GateEnvs == {Nil, 0, 1, 2, MaxGate, MaxGate + 1}

\* init: the capacity the gate is made with.
gateLimit(v) == IF v # Nil /\ v > 0 /\ v <= MaxGate THEN v ELSE DefaultGate

releasesOnSuccessOnly(outcome) == outcome = "ok"

\* The deferred receive runs on every return of callContractWithRetry.
releases(outcome) == outcome \in {"ok", "err"}

outsideGate == <<mainVars, rescueVars, inspectorVars, clampVars, cancelAt, batchVars, mainBinVars, planVars, simVars, pauseVars, retryVars, preflightVars, sweepVars, tipVars, memoVars>>

GateInit ==
    /\ RunIdle /\ RescueIdle /\ InspectorIdle /\ ClampIdle /\ cancelAt = NoCancel /\ BatchIdle /\ MainIdle /\ PlanIdle /\ SimIdle /\ PauseIdle /\ RetryIdle /\ PreflightIdle /\ SweepIdle /\ TipIdle /\ MemoIdle
    /\ gateEnv \in GateEnvs
    /\ gateCap = gateLimit(gateEnv)
    /\ gateLen = 0
    /\ sendq = <<>>
    /\ callerPc = [c \in Callers |-> "idle"]
    /\ callerTry = [c \in Callers |-> 0]
    /\ callerRes = [c \in Callers |-> ""]
    /\ woken = {}

\* rpcConcurrencyGate <- struct{}{}: the send goes through when the buffer has
\* room, and otherwise the goroutine joins the channel's queue of senders.
GateEnter(c) ==
    /\ callerPc[c] = "idle"
    /\ IF gateLen < gateCap
       THEN /\ gateLen' = gateLen + 1
            /\ callerPc' = [callerPc EXCEPT ![c] = "calling"]
            /\ callerTry' = [callerTry EXCEPT ![c] = 1]
            /\ UNCHANGED sendq
       ELSE /\ sendq' = Append(sendq, c)
            /\ callerPc' = [callerPc EXCEPT ![c] = "waiting"]
            /\ UNCHANGED <<gateLen, callerTry>>
    /\ UNCHANGED <<gateEnv, gateCap, callerRes, woken, outsideGate>>

\* ec.CallContract returns. A success, or the error of the last attempt, ends
\* callContractWithRetry and runs the deferred receive: the receive frees one
\* place, which the first blocked sender takes at once. Any other error puts
\* the caller to sleep with its place kept.
GateCallReturns(c, outcome) ==
    /\ callerPc[c] = "calling"
    /\ IF outcome = "ok" \/ callerTry[c] >= maxAttempts
       THEN /\ callerRes' = [callerRes EXCEPT ![c] = outcome]
            /\ IF ~releases(outcome)
               THEN /\ callerPc' = [callerPc EXCEPT ![c] = "done"]
                    /\ UNCHANGED <<callerTry, gateLen, sendq, woken>>
               ELSE IF sendq # <<>>
               THEN /\ callerPc' = [callerPc EXCEPT ![c] = "done", ![Head(sendq)] = "calling"]
                    /\ callerTry' = [callerTry EXCEPT ![Head(sendq)] = 1]
                    /\ sendq' = Tail(sendq)
                    /\ woken' = woken \cup {Head(sendq)}
                    /\ UNCHANGED gateLen
               ELSE /\ callerPc' = [callerPc EXCEPT ![c] = "done"]
                    /\ gateLen' = gateLen - 1
                    /\ UNCHANGED <<callerTry, sendq, woken>>
       ELSE /\ callerPc' = [callerPc EXCEPT ![c] = "backoff"]
            /\ UNCHANGED <<callerTry, callerRes, gateLen, sendq, woken>>
    /\ UNCHANGED <<gateEnv, gateCap, outsideGate>>

\* time.Sleep(backoff) ends and the next attempt starts.
GateBackoffEnds(c) ==
    /\ callerPc[c] = "backoff"
    /\ callerPc' = [callerPc EXCEPT ![c] = "calling"]
    /\ callerTry' = [callerTry EXCEPT ![c] = callerTry[c] + 1]
    /\ UNCHANGED <<gateEnv, gateCap, gateLen, sendq, callerRes, woken, outsideGate>>

GateNext ==
    \/ \E c \in Callers : GateEnter(c)
    \/ \E c \in Callers : \E outcome \in {"ok", "err"} : GateCallReturns(c, outcome)
    \/ \E c \in Callers : GateBackoffEnds(c)

\* Every call returns and every sleep ends.
GateFairness ==
    \A c \in Callers :
        /\ WF_vars(\E outcome \in {"ok", "err"} : GateCallReturns(c, outcome))
        /\ WF_vars(GateBackoffEnds(c))

SpecGate == GateInit /\ [][GateNext]_vars /\ GateFairness
\* ------------------------------------------------------- tip per attempt

\* The last attempt the oracle is asked for (Blocks is 2).
MaxTipAttempt == 1

\* The tip settings a caller may pass (TIP_MUL and the tip field are taken as
\* typed): both modes, multipliers above, at and below one.
TipConfigs ==
    {[BaseParams EXCEPT !.TipMode = m, !.TipMul = x, !.TipGweiBase = b] :
        m \in {"fixed", "feehist"}, x \in {<<0, 1>>, <<1, 1>>, <<3, 2>>, <<1, 2>>}, b \in {0, 5}}

\* Fee histories: an error, an empty matrix, empty rows, rewards of zero, and
\* rewards of one wei and of some gwei.
TipFeeHists ==
    FeeHists \cup {[err |-> FALSE, reward |-> r] : r \in {<<<<>>>>, <<<<0>>, <<0>>>>, <<<<1>>, <<0>>>>}}

outsideTip == <<mainVars, rescueVars, inspectorVars, clampVars, cancelAt, batchVars, mainBinVars, planVars, simVars, pauseVars, retryVars, preflightVars, sweepVars, gateVars, memoVars>>

TipInit ==
    /\ RunIdle /\ RescueIdle /\ InspectorIdle /\ ClampIdle /\ cancelAt = NoCancel /\ BatchIdle /\ MainIdle /\ PlanIdle /\ SimIdle /\ PauseIdle /\ RetryIdle /\ PreflightIdle /\ SweepIdle /\ GateIdle /\ MemoIdle
    /\ tipIn \in [p : {withDefaults(c) : c \in TipConfigs}, attempt : 0..MaxTipAttempt,
                  feeHist : TipFeeHists, suggest : Suggests]
    /\ tipOut = Nil

\* The tip block of one pass of Run's attempt loop.
TipOnce ==
    /\ tipOut = Nil
    /\ tipOut' = attemptTip(tipIn.p, tipIn.attempt, tipIn.feeHist, tipIn.suggest)
    /\ UNCHANGED <<tipIn, outsideTip>>

TipNext == TipOnce

SpecTip == TipInit /\ [][TipNext]_vars
\* ------------------------------------------------------ bundle-print memo

\* The relay simulations that run side by side.
MaxSimulators == 3

Simulators == 1..MaxSimulators

\* The bundles passed: the target block and the raw transactions, each by the
\* length of its hex text.
MemoBundles ==
    {[targetBlock |-> InitHead + 1, txHexes |-> <<230, 350>>],
     [targetBlock |-> InitHead + 2, txHexes |-> <<230, 350>>]}

\* The fingerprint: the target block and the lengths of the transactions.
fingerprintOf(txHexes, targetBlock) == <<targetBlock, txHexes>>

outsideMemo == <<mainVars, rescueVars, inspectorVars, clampVars, cancelAt, batchVars, mainBinVars, planVars, simVars, pauseVars, retryVars, preflightVars, sweepVars, gateVars, tipVars>>

MemoInit ==
    /\ RunIdle /\ RescueIdle /\ InspectorIdle /\ ClampIdle /\ cancelAt = NoCancel /\ BatchIdle /\ MainIdle /\ PlanIdle /\ SimIdle /\ PauseIdle /\ RetryIdle /\ PreflightIdle /\ SweepIdle /\ GateIdle /\ TipIdle
    /\ memoCall \in [Simulators -> MemoBundles]
    /\ memoPc = [s \in Simulators |-> "load"]
    /\ printedBundleFingerprints = {}
    /\ printedLog = <<>>

\* printedBundleFingerprints.Load(fp): return when the fingerprint is there.
MemoLoad(s) ==
    /\ memoPc[s] = "load"
    /\ memoPc' = [memoPc EXCEPT ![s] =
                    IF fingerprintOf(memoCall[s].txHexes, memoCall[s].targetBlock)
                         \in printedBundleFingerprints
                    THEN "done" ELSE "store"]
    /\ UNCHANGED <<memoCall, printedBundleFingerprints, printedLog, outsideMemo>>

\* printedBundleFingerprints.Store(fp, struct{}{})
MemoStore(s) ==
    /\ memoPc[s] = "store"
    /\ printedBundleFingerprints' = printedBundleFingerprints
          \cup {fingerprintOf(memoCall[s].txHexes, memoCall[s].targetBlock)}
    /\ memoPc' = [memoPc EXCEPT ![s] = "print"]
    /\ UNCHANGED <<memoCall, printedLog, outsideMemo>>

\* fmt.Printf("[bundle] ...") and the lines of the transactions.
MemoPrint(s) ==
    /\ memoPc[s] = "print"
    /\ printedLog' = Append(printedLog,
                            fingerprintOf(memoCall[s].txHexes, memoCall[s].targetBlock))
    /\ memoPc' = [memoPc EXCEPT ![s] = "done"]
    /\ UNCHANGED <<memoCall, printedBundleFingerprints, outsideMemo>>

MemoNext ==
    \/ \E s \in Simulators : MemoLoad(s)
    \/ \E s \in Simulators : MemoStore(s)
    \/ \E s \in Simulators : MemoPrint(s)

SpecMemo == MemoInit /\ [][MemoNext]_vars

\* ------------------------------------------------------------------ claims
Done == pc = "done"

Signed == plan.attempt # Nil /\ plan.signedList # <<>>

\* The transfer of the current plan, and the plan's transactions by signer.
planTransfer == plan.signedList[Len(plan.signedList)]

planFrom == signedBy(plan.signedList, "from")

\* A successful receipt of the current attempt's transfer at its target block.
SuccessAtTarget ==
    \E r \in receipts :
        r.hash = ourTx2 /\ r.block = plan.targetBlock /\ r.status = "success"

\* C1: Run returns Included = true only if the head has reached the target
\* block T of the returning attempt and the chain holds a receipt of that
\* attempt's transfer whose block is T and whose status is success.
C1_IncludedOnlyWithReceipt ==
    result.Included =>
        /\ Done /\ Signed
        /\ head >= plan.targetBlock
        /\ SuccessAtTarget
        /\ lastCheck.attempt = plan.attempt

C1_Witness == Done /\ result.Included /\ SuccessAtTarget

\* C2: a run ends with reason "competing nonce" only if a foreign
\* transaction has been mined at a nonce this run chose for its transfer.
C2_CompetingOnlyIfForeignMined ==
    (Done /\ result.Reason = "competing nonce") =>
        \E m \in minedBy : m.by = "foreign" /\ m.nonce \in chosen

\* C3: when CHECK reads a latest nonce above the starting nonce and the chain
\* holds no successful receipt of the transfer at T, Run has returned
\* "competing nonce" in that same attempt: the loop index and the plan are
\* still those of the checked attempt, and nothing follows.
C3_RaceEndsRun ==
    (lastCheck.attempt # Nil /\ lastCheck.n # Nil /\ lastCheck.n > startFromNonce
        /\ ~SuccessAtTarget) =>
        /\ Done
        /\ ~result.Included /\ result.Reason = "competing nonce"
        /\ attempt = lastCheck.attempt /\ plan.attempt = lastCheck.attempt
        /\ simPending = {} /\ sendPending = {}

C3_Witness ==
    /\ Done /\ result.Reason = "competing nonce"
    /\ lastCheck.n # Nil /\ lastCheck.n > startFromNonce /\ ~SuccessAtTarget
    /\ head >= plan.targetBlock
    /\ \E m \in minedBy : m.by = "foreign"

\* C4: the tip signed in attempt i > 0 is at least the tip signed in
\* attempt i-1, in fixed mode and in fee-history mode.
C4_TipMonotone == (Signed /\ prev.has) => plan.tip >= prev.tip

\* C5: the target block of attempt i > 0 is strictly greater than the target
\* block of attempt i-1.
C5_TargetIncreasing == (Signed /\ prev.has) => plan.targetBlock > prev.target

\* C6: every transaction signed in a plan (bribe, funding, cancel, transfer)
\* carries the attempt's tip and the fee cap baseFee * BaseMul + tip, which
\* is at least the tip.
C6_FeesOfPlan ==
    Signed =>
        \A i \in DOMAIN plan.signedList :
            LET tx == plan.signedList[i].tx
            IN  /\ tx.GasTipCap = plan.tip
                /\ tx.GasFeeCap = plan.baseFee * p.BaseMul + plan.tip
                /\ tx.GasFeeCap >= tx.GasTipCap
                /\ tx.GasTipCap > 0

\* A plan with all four transactions: bribe, funding, cancel, transfer.
C6_Witness ==
    /\ Signed /\ Len(plan.signedList) = 4
    /\ plan.signedList[1].tx.Data = BribeInit
    /\ plan.replaceMode
    /\ pc = "wait"

\* The requirement the solvency test compares the sponsor's balance with:
\* the sponsor's gas at the fee cap, the funding value and the bribe.
Requirement ==
    (FundingGas + bribeGasOf(p)) * plan.maxFee + plan.prefundWei + bribeWeiOf(p)

\* C7: a signed plan read a sponsor balance of at least the requirement; a
\* plan that read less signed nothing, sent nothing, and Run returned
\* "insufficient SAFE balance for fee+prefund" in that attempt.
C7_Solvency ==
    plan.attempt # Nil =>
        /\ plan.needTotal = Requirement
        /\ Signed => plan.safeBal >= Requirement
        /\ plan.safeBal < Requirement =>
              /\ plan.signedList = <<>>
              /\ Done /\ ~result.Included
              /\ result.Reason = "insufficient SAFE balance for fee+prefund"
              /\ attempt = plan.attempt
              /\ \A b \in sentBundles : b.target # plan.targetBlock

\* The second attempt of a run finds the sponsor short and ends the run.
C7_Witness ==
    /\ plan.attempt = 1 /\ plan.safeBal > 0 /\ plan.safeBal < Requirement
    /\ plan.signedList = <<>> /\ Done
    /\ result.Reason = "insufficient SAFE balance for fee+prefund"

\* C8: the amount encoded in a signed transfer is at most the token balance
\* the attempt read before signing (and at most the amount asked for).
C8_AmountClamped ==
    Signed =>
        /\ planTransfer.tx.Data = EncodeERC20Transfer("to", plan.amount)
        /\ plan.balRead # Nil => amountOf(planTransfer) <= plan.balRead
        /\ p.AmountWei = plan.amount

\* A plan whose amount was clamped down to a balance below the amount asked.
C8_Witness ==
    /\ Signed /\ plan.balRead = 1 /\ amountOf(planTransfer) = 1
    /\ pc = "wait"

\* C9: a plan that read pending > latest holds a cancel from the compromised
\* EOA to itself at nonce latest, with value zero and no data, and the
\* transfer at nonce latest + 1, both with the same tip and fee cap.
C9_ReplacementLayout ==
    (Signed /\ plan.pendingNonce > plan.latestNonce) =>
        /\ Len(planFrom) = 2
        /\ planFrom[1].tx.To = "from"
        /\ planFrom[1].tx.Nonce = plan.latestNonce
        /\ planFrom[1].tx.Value = 0
        /\ planFrom[1].tx.Data = NoData
        /\ planFrom[2] = planTransfer
        /\ planFrom[2].tx.To = "token"
        /\ planFrom[2].tx.Nonce = plan.latestNonce + 1
        /\ planFrom[1].tx.GasTipCap = planFrom[2].tx.GasTipCap
        /\ planFrom[1].tx.GasFeeCap = planFrom[2].tx.GasFeeCap

C9_Witness ==
    /\ Signed /\ plan.pendingNonce > plan.latestNonce
    /\ plan.latestNonce = chainLatest /\ Len(planFrom) = 2
    /\ pc = "send"

\* C10: a plan that read pending = latest holds no cancel; its only
\* transaction from the compromised EOA is the transfer, at nonce latest.
C10_PlainLayout ==
    (Signed /\ plan.pendingNonce = plan.latestNonce) =>
        /\ Len(planFrom) = 1
        /\ planFrom[1] = planTransfer
        /\ planFrom[1].tx.To = "token"
        /\ planFrom[1].tx.Nonce = plan.latestNonce
        /\ \A i \in DOMAIN plan.signedList : plan.signedList[i].tx.To # "from"
              \/ plan.signedList[i].signer = "safe"

C10_Witness ==
    /\ Signed /\ plan.pendingNonce = plan.latestNonce
    /\ plan.latestNonce = chainLatest /\ Len(planFrom) = 1
    /\ pc = "send"

\* C11: within one attempt no send request is out before every simulate
\* request of the attempt has returned, and the inclusion monitor runs only
\* after every send request of the attempt has returned.
C11_Barriers ==
    /\ (pc = "send" \/ sendPending # {}) => simPending = {}
    /\ pc \in {"wait", "check"} => (simPending = {} /\ sendPending = {})
    /\ (\E b \in sentBundles : plan.attempt # Nil /\ b.txs = plan.signedList
                                /\ b.target = plan.targetBlock)
          => (pc \in {"send", "wait", "check", "attempt", "done"} /\ simPending = {})

\* Two relays: one send has returned, the other is still out.
C11_Witness ==
    /\ pc = "send" /\ Cardinality(relaysOf(p)) = 2
    /\ Cardinality(sendPending) = 1 /\ sentBundles # {}

\* Run returned from inside the attempt loop or after it.
EndedInLoop ==
    /\ Done
    /\ result.Err \notin {"AmountWei must be > 0", "no relays or matchmakers configured",
                          "rpc error"}
    /\ result.Reason \notin {"token paused", "token restricted"}

\* C12: a run makes at most N = p.Blocks attempts, and a run that sends
\* bundles and ends neither included, nor competing, nor short of sponsor
\* funds has made exactly N attempts and ends with "exhausted attempts".
C12_ExactlyNThenExhausted ==
    /\ attempt <= p.Blocks \/ pc = "start"
    /\ (EndedInLoop /\ ~p.SimulateOnly /\ ~result.Included
          /\ result.Reason \notin {"competing nonce",
                                   "insufficient SAFE balance for fee+prefund"})
        => /\ result.Reason = "exhausted attempts"
           /\ attempt = p.Blocks
           /\ plan.attempt = p.Blocks - 1

\* Nothing of an attempt exists: no plan, no signed transaction, no request
\* to a relay out or answered.
NothingPlanned ==
    /\ attempt = 0 /\ plan = NoPlan /\ chosen = {}
    /\ simPending = {} /\ sendPending = {} /\ sentBundles = {}
    /\ ~simOK

\* C13: when the token is one whose pre-check reports a restriction (paused,
\* or whitelist-only with the recipient not listed), Run has returned the
\* restriction before the attempt loop: nothing is planned, signed,
\* simulated or sent.
C13_RestrictedBeforePlan ==
    (world.token \in Tokens /\ pc # "start") =>
        /\ Done /\ ~result.Included /\ result.Err = ""
        /\ result.Reason \in {"token restricted", "token paused"}
        /\ (result.Reason = "token paused") <=> (p.SkipIfPaused /\ world.token.paused)
        /\ NothingPlanned

C13_Witness ==
    /\ Done /\ result.Reason = "token restricted" /\ NothingPlanned
    /\ CheckRestrictions(world.token).OnlyWhitelisted

\* C14: a run configured with N = 0 attempts fails fast with "no attempts
\* configured": the step that starts such a run ends it with that error, with
\* no attempt performed and nothing planned, signed or sent.
C14_ZeroAttemptsFailFast ==
    [][(pc = "start" /\ p.Blocks = 0) =>
          /\ pc' = "done"
          /\ result'.Err = "no attempts configured"
          /\ attempt' = 0 /\ plan' = NoPlan /\ sentBundles' = {}]_vars

\* C15: a run given an empty relay list fails fast, on the classic bundle
\* route (Run) and on the delegated-code route (ExecuteRescue): it returns a
\* failure and has planned, signed, simulated and sent nothing.
C15_EmptyRelaysFailFast ==
    /\ (pc \notin {"off", "start"} /\ p.Relays = <<>>) =>
           /\ Done /\ ~result.Included /\ result.Err # ""
           /\ NothingPlanned
    /\ (rescuePc \notin {"off", "start"} /\ req.RelayURLs = <<>>) =>
           /\ rescuePc = "done" /\ rescueErr # ""
           /\ signed = NoTx /\ relayCalls = <<>> /\ results = <<>>

\* C16: in simulate-only mode a run never issues a bundle send request to any
\* relay in any attempt: no send call is ever started or pending, no relay
\* holds a bundle of the run, the monitor is never entered, and the run never
\* reports inclusion; a simulation that passed ends it with "simulate only".
C16_SimulateOnlyNeverSends ==
    p.SimulateOnly =>
        /\ pc \notin {"send", "wait", "check"}
        /\ sendPending = {} /\ sentBundles = {}
        /\ Done => ~result.Included
        /\ (Done /\ simOK) => result.Reason = "simulate only"

C16_Witness ==
    /\ p.SimulateOnly /\ Done /\ result.Reason = "simulate only"
    /\ attempt = 1 /\ Signed

\* C17: Blocked() is monotone: from any restriction descriptor with
\* Blocked() = true, further findings (a further block flag set, an unknown
\* whitelist result turned into a known one) never make Blocked() false.
C17_BlockedMonotone == Blocked(tr0) => Blocked(tr)

C17_Witness ==
    /\ Blocked(tr0) /\ Blocked(tr)
    /\ ~tr0.Paused /\ ~tr0.TransferDisabled /\ ~tr0.BlacklistedFrom /\ ~tr0.BlacklistedTo
    /\ tr0.ToWhitelisted = NilBool /\ tr.ToWhitelisted = "true"
    /\ ~tr0.BlacklistedTo /\ tr.BlacklistedTo

\* C18: clamping is idempotent: applied again against the same live balance,
\* the clamp step yields the same amount and the same signed transfer payload
\* as applied once.
C18_ClampIdempotent ==
    \A i \in 1..Len(payloads) :
        /\ payloads[i] = payloads[1]
        /\ amountOf(payloads[i]) = clampAmount(clampIn.amount, clampIn.bal)
        /\ amountWei = amountOf(payloads[1])

C18_Witness ==
    /\ Len(payloads) = 2
    /\ clampIn.bal # Nil /\ clampIn.bal < clampIn.amount
    /\ amountWei = clampIn.bal

\* C19: after Run's cancellation token fires, Run does not re-enter the
\* attempt loop: the loop index stays where it was, no further attempt is
\* planned, no further relay request is started, and Run returns an outcome
\* rather than an error.
C19_NoReentryAfterCancel ==
    cancelled =>
        /\ attempt = cancelAt.attempt
        /\ (pc \in {"sim", "simonly", "send"} => pc = cancelAt.pc)
        /\ (Done => result.Err = "")

\* Rows written for input line i to a file.
rowsFor(w, i) == Cardinality({k \in 1..Len(w) : w[k].line = i})

\* Input line i is one the processor skips: a blank line, or the header.
skipped(i) == ~data[i].err /\ skipRow(data[i].row, i)

\* C20: when the batch processor has ended, every input row that is not
\* skipped has exactly one row, in exactly one of ok.csv and bad.csv; no row
\* stops the processing of the rows after it.
C20_OneRowPerPair ==
    batchPc \in {"done", "failed"} =>
        \A i \in 1..Len(data) :
            ~skipped(i) => rowsFor(okW, i) + rowsFor(badW, i) = 1


\* The misconfigurations the specification lists: no RPC, no sponsor key, an
\* input that is missing or cannot be read.
Misconfigured ==
    cfg.rpcURL = "" \/ cfg.safePrivateHex = "" \/ cfg.inputPath = "" \/ ~host.readable

\* C21: the batch binary exits with 2 on misconfiguration (missing RPC,
\* missing sponsor key, unreadable input), with 0 when the batch completed and
\* with 1 on any other error.
C21_ExitCodes ==
    mainPc = "exited" =>
        /\ Misconfigured <=> exitCode = 2
        /\ (~Misconfigured /\ runError(cfg, host) = "") <=> exitCode = 0
        /\ (~Misconfigured /\ runError(cfg, host) # "") <=> exitCode = 1


\* A third-party transaction of the compromised EOA was mined at the nonce
\* the current plan read as latest.
ForeignMinedAtLatest == [nonce |-> plan.latestNonce, by |-> "foreign"] \in minedBy

\* C22: when the monitor checks an attempt after a third-party transaction
\* was mined at the plan's latest nonce, and the run's transfer has no
\* receipt, the check (its nonce read succeeding) ends the run with
\* "competing nonce" instead of retrying.
C22_ForeignMinedIsCompeting ==
    [][(/\ pc = "check"
        /\ ForeignMinedAtLatest
        /\ ~receiptOf(ourTx2).found
        /\ lastCheck'.n # Nil)
          => (pc' = "done" /\ result'.Reason = "competing nonce")]_vars


\* C23: when the transfer of the current attempt was mined successfully in
\* its target block T and the monitor has seen the head reach T before its
\* deadline, the run returns "included": it does not move on to a later
\* attempt and does not end with "competing nonce".
C23_MinedMeansIncluded ==
    [][(pc = "check" /\ SuccessAtTarget)
          => (pc' = "done" /\ result'.Included /\ result'.Reason = "included")]_vars


\* C24: in every plan the transfer's nonce lies between the latest nonce and
\* the pending nonce plus one, whatever latest and pending nonce the attempt
\* observed.
C24_TransferNonceBounds ==
    Signed =>
        /\ plan.latestNonce <= planTransfer.tx.Nonce
        /\ planTransfer.tx.Nonce <= plan.pendingNonce + 1

\* The cancel transaction of a plan: the compromised EOA's transfer to itself.
cancelTxOf(pl) ==
    pl.signedList[CHOOSE i \in 1..Len(pl.signedList) :
                      pl.signedList[i].signer = "from" /\ pl.signedList[i].tx.To = "from"].tx

\* C25: in replacement mode the cancel transaction at the latest nonce carries
\* a tip and a fee cap each at least those of the transaction pending at that
\* nonce.
C25_CancelOutbidsPending ==
    (planOut # NoPlan /\ planOut.replaceMode /\ planOut.signedList # <<>>) =>
        /\ cancelTxOf(planOut).Nonce = planOut.latestNonce
        /\ cancelTxOf(planOut).GasTipCap >= planIn.pendingTx.tip
        /\ cancelTxOf(planOut).GasFeeCap >= planIn.pendingTx.cap

\* After the plan read the true nonces, the compromised EOA's pending nonce
\* moved past the nonce the plan gave the transfer.
PendingAdvancedPastPlan ==
    /\ Signed
    /\ plan.latestNonce = chainLatest
    /\ plan.pendingNonce >= chainLatest
    /\ chainPending > plan.pendingNonce
    /\ chainPending > planTransfer.tx.Nonce

\* C26: when the pending nonce advances past the plan's nonce before the
\* bundle is submitted, no send request submits the bundle and the run ends
\* with "competing nonce".
C26_AdvanceAbortsBeforeSend ==
    [][(pc = "send" /\ PendingAdvancedPastPlan)
          => /\ sentBundles' = sentBundles
             /\ pc' \in {"send", "done"}
             /\ pc' = "done" => result'.Reason = "competing nonce"]_vars

\* The least integer not below n/d.
Ceil(n, d) == (n + d - 1) \div d

\* The funding payment of a plan: the sponsor's payment to the compromised EOA.
fundingTxOf(pl) ==
    pl.signedList[CHOOSE i \in 1..Len(pl.signedList) :
                      pl.signedList[i].signer = "safe" /\ pl.signedList[i].tx.To = "from"].tx

\* The funding value and the requirement as written: rounded up, and with
\* the gas of the funding payment alone.
C27_AsWritten ==
    planOut # NoPlan =>
        LET c  == planOut.maxFee
            gc == IF planOut.replaceMode THEN 21000 ELSE 0
            V  == Ceil(((planOut.gasTransfer + gc) * c) * 110, 100)
        IN  /\ planOut.prefundWei = V
            /\ planOut.needTotal = (21000 * c + V) + bribeWeiOf(planIn.p)

\* C27: in every plan the funding value is V = (g_x + g_c) * c * 110 / 100
\* rounded down (g_c = 21000 in replacement mode, 0 otherwise), the funding
\* payment carries V with gas 21000, and the requirement compared with the
\* sponsor's balance is R = (21000 + g_b) * c + V + bribe value, where c is
\* the attempt's fee cap and g_b the gas limit of the bribe (0 without one).
C27_FundingAndRequirement ==
    planOut # NoPlan =>
        LET q  == planIn.p
            c  == planOut.maxFee
            gc == IF planOut.replaceMode THEN 21000 ELSE 0
            hasBribe == q.BribeWei # Nil /\ q.BribeWei > 0
            gb == IF ~hasBribe THEN 0
                  ELSE IF q.BribeGasLimit = 0 THEN 60000 ELSE q.BribeGasLimit
            bribe == IF hasBribe THEN q.BribeWei ELSE 0
            V  == (((planOut.gasTransfer + gc) * c) * 110) \div 100
            R  == ((21000 + gb) * c + V) + bribe
        IN  /\ c = planIn.baseFee * q.BaseMul + planOut.tip
            /\ planOut.replaceMode <=> planIn.pendingNonce > InitNonce
            /\ planOut.prefundWei = V
            /\ planOut.needTotal = R
            /\ planOut.safeBal = planIn.safeBal
            /\ planOut.signedList # <<>> <=> planOut.safeBal >= R
            /\ planOut.signedList # <<>> =>
                  /\ fundingTxOf(planOut).Value = V
                  /\ fundingTxOf(planOut).Gas = 21000

\* A replacement plan with a bribe whose funding value is not a whole number
\* before rounding.
C27_Witness ==
    /\ planOut # NoPlan
    /\ planOut.replaceMode
    /\ planIn.p.BribeWei # Nil /\ planIn.p.BribeWei > 0
    /\ (((planOut.gasTransfer + 21000) * planOut.maxFee) * 110) % 100 # 0
    /\ planOut.signedList # <<>>

\* C28: outside simulate-only mode the bundle is sent only if some relay's
\* simulation of it was ok or reported unsupported: with classic relays only
\* (whose simulations are ok or failed) the send fan-out of an attempt starts
\* only with the attempt's simOK set.
C28_SendOnlyAfterSimOK ==
    (pc = "send" /\ classifyRelays(p.Relays).matchmakers = {}) => simOK

\* The answer that decided the report: the second one after a fallback.
decidingResp ==
    IF /\ simIn.kind = "matchmaker" /\ simIn.useStrategy
       /\ methodMissing(simOnce(simIn.resp).err)
    THEN simIn.resp2 ELSE simIn.resp

cleanResult(resp) ==
    \A i \in DOMAIN resp.result.results :
       resp.result.results[i].error = "" /\ resp.result.results[i].revert = ""

\* C29: for an answer that arrived (HTTP 200, with an error or a result), the
\* simulate result is reported ok exactly when the answer carries no RPC-level
\* error and no per-transaction error or revert in its result array, whatever
\* the relay's kind.
C29_SimOkRule ==
    (/\ simReport # "none"
     /\ ~decidingResp.transportErr /\ decidingResp.status = 200
     /\ decidingResp.rpcErr # "" \/ decidingResp.result.present)
        => (simReport = "ok" <=> (decidingResp.rpcErr = "" /\ cleanResult(decidingResp)))

\* The getters by what their names say.
PauseGetters == 1..7
EnabledGetters == 8..11

\* C30: the token is reported paused exactly when some pause getter returns
\* true or some enabled getter returns false; absent getters never count as
\* paused.
C30_PausedRule ==
    probe.done =>
        (probe.Paused <=> \/ \E i \in PauseGetters : answers[i] = 1
                          \/ \E i \in EnabledGetters : answers[i] = 0)

\* The errors the specification calls transient.
TransientErrors == {ErrRateLimit, ErrTimeout, ErrUnavailable, ErrEOF, ErrReset}

\* C33: the call is attempted at most 3 times; every attempt but the last
\* one made ended in a transient error (a revert is returned without retry);
\* the first delay is 200 ms and a delay doubles only after a rate-limit error.
C33_RetryPolicy ==
    callRes.done =>
        /\ callRes.calls <= 3
        /\ \A k \in 1..(callRes.calls - 1) : callOuts[k].err \in TransientErrors
        /\ Len(callRes.sleeps) = callRes.calls - 1
        /\ callRes.sleeps # <<>> => callRes.sleeps[1] = 200
        /\ \A k \in 1..(Len(callRes.sleeps) - 1) :
              callRes.sleeps[k + 1] = IF callOuts[k].err = ErrRateLimit
                                      THEN 2 * callRes.sleeps[k] ELSE callRes.sleeps[k]

\* The probe that decided the attempt failed with a transient RPC error.
TransientProbeFailure ==
    /\ pfIn.amount > 0
    /\ IF pfIn.rc THEN pfIn.direct.err \in TransientErrors
       ELSE callWithRetry(pfIn.outs).err \in TransientErrors

\* C31: a preflight probe (classic or delegated-code) that fails with a
\* transient RPC error is reported to the caller as an error carrying a
\* class, not as a verdict.
C31_TransientIsError ==
    (pfReason.done /\ TransientProbeFailure) =>
        /\ pfOut.err # ""
        /\ pfReason.class \in {"rpc_timeout", "rpc_unavailable", "rpc_rate_limited", "rpc_error"}

\* C32: the batch packs the delegate's sweepToken only for a row whose
\* preflight verdict is route=direct, and sellToETH_V2 for a row whose verdict
\* is route=router.
C32_RouteByVerdict ==
    \A k \in 1..Len(handed) :
        /\ (handed[k].method = "sweepToken" => handed[k].why = "route=direct")
        /\ (handed[k].why = "route=router" => handed[k].method = "sellToETH_V2")

Holding == {c \in Callers : callerPc[c] \in {"calling", "backoff"}}

InFlight == {c \in Callers : callerPc[c] = "calling"}

GateBounded ==
    /\ gateCap \in 1..MaxGate
    /\ gateCap = (IF gateEnv \in 1..MaxGate THEN gateEnv ELSE DefaultGate)
    /\ Cardinality(InFlight) <= gateCap
    /\ gateLen = Cardinality(Holding)
    /\ gateLen <= gateCap

\* C34: at most n calls are in flight through the gate, n being the configured
\* limit (16 by default, 1 to 256 accepted); a place taken is given back when
\* the call returns, with a result or with an error; a caller waiting for a
\* place is admitted in the end.
C34_GateBoundAndAdmission ==
    /\ []GateBounded
    /\ \A c \in Callers : (callerPc[c] = "waiting") ~> (callerPc[c] = "calling")

C34_Witness ==
    /\ gateCap = 1
    /\ callerRes[1] = "err"
    /\ 2 \in woken
    /\ callerPc[2] = "calling"
    /\ gateLen = gateCap

\* C35: a fee history that fails, is empty or holds only zero rewards makes the
\* percentile mode use the fixed escalation, and no attempt signs with a tip
\* of zero.
C35_FallbackAndNonZeroTip ==
    tipOut # Nil =>
        /\ (ToLower(tipIn.p.TipMode) = "feehist" /\ TipFromFeeHistory(tipIn.feeHist) = Nil
                => tipOut = fixedTip(tipIn.p, tipIn.attempt, tipIn.suggest))
        /\ tipOut > 0

\* What a signed transaction of a bundle is, by its signer and destination.
roleOf(stx) ==
    IF stx.signer = "safe" THEN (IF stx.tx.To = "nil" THEN "bribe" ELSE "funding")
    ELSE (IF stx.tx.To = "token" THEN "transfer" ELSE "cancel")

\* C36: the signed bundle of an attempt is [bribe if enabled, funding, cancel
\* in replacement mode only, transfer]; the funding comes before every
\* transaction of the compromised EOA, the transfer is last and is the
\* transaction the monitor watches, and the sponsor's transactions carry
\* consecutive nonces in bundle order.
C36_BundleOrder ==
    Signed =>
        LET sl     == plan.signedList
            roles  == [i \in 1..Len(sl) |-> roleOf(sl[i])]
            safeTx == signedBy(sl, "safe")
        IN  /\ roles = (IF p.BribeWei # Nil /\ p.BribeWei > 0 THEN <<"bribe">> ELSE <<>>)
                       \o <<"funding">>
                       \o (IF plan.replaceMode THEN <<"cancel">> ELSE <<>>)
                       \o <<"transfer">>
            /\ \A i, j \in 1..Len(sl) :
                  (roles[i] = "funding" /\ sl[j].signer = "from") => i < j
            /\ ourTx2 = Hash(sl[Len(sl)]) /\ roleOf(ourTx2) = "transfer"
            /\ \A k \in 1..Len(safeTx) : safeTx[k].tx.Nonce = safeTx[1].tx.Nonce + k - 1

C36_Witness ==
    /\ Signed /\ plan.replaceMode
    /\ Len(plan.signedList) = 4
    /\ pc = "wait"

\* The results SendPrivate recorded for a relay, in order, and their methods.
resultsFor(url) == SelectSeq(results, LAMBDA r : r.RelayURL = url)

triedOn(url) == [i \in 1..Len(resultsFor(url)) |-> resultsFor(url)[i].RequestMethod]

IsPrefix(s, t) == Len(s) <= Len(t) /\ \A i \in 1..Len(s) : s[i] = t[i]

\* No request follows an accepted one on the same relay.
StopsAtFirst2xx(url) ==
    \A i \in 1..Len(resultsFor(url)) : resultsFor(url)[i].Accepted => i = Len(resultsFor(url))

PrivateMethods ==
    <<"eth_sendPrivateTransaction", "eth_sendPrivateRawTransaction", "eth_sendRawTransaction">>

\* The order as written: the three private-send methods and, for a cloud-API
\* relay, blxr_private_tx after them.
C37_AsWritten ==
    \A url \in {FlashbotsURL, BeaverURL, BloxrouteURL} :
        /\ IsPrefix(triedOn(url),
                    IF ContainsBlxr(url) THEN PrivateMethods \o <<"blxr_private_tx">>
                    ELSE PrivateMethods)
        /\ StopsAtFirst2xx(url)

\* C37: on each relay the methods are tried in the order
\* eth_sendPrivateTransaction, eth_sendPrivateRawTransaction,
\* eth_sendRawTransaction, preceded for a cloud-API relay by blxr_private_tx,
\* and no method is tried on a relay after its first HTTP-2xx response.
C37_MethodOrder ==
    \A url \in {FlashbotsURL, BeaverURL, BloxrouteURL} :
        /\ IsPrefix(triedOn(url),
                    IF ContainsBlxr(url) THEN <<"blxr_private_tx">> \o PrivateMethods
                    ELSE PrivateMethods)
        /\ StopsAtFirst2xx(url)

C37_Witness ==
    /\ rescuePc = "done"
    /\ triedOn(BloxrouteURL) = <<"blxr_private_tx", "eth_sendPrivateTransaction">>
    /\ ~resultsFor(BloxrouteURL)[1].Accepted
    /\ resultsFor(BloxrouteURL)[2].Accepted

\* C38: every transfer a run signs encodes an amount above zero, in every
\* attempt, also after the amount was clamped to the balance read.
C38_SignedAmountPositive ==
    Signed => amountOf(planTransfer) > 0

\* C40: a bundle with a given fingerprint is printed at most once, also when
\* several relay simulations of one bundle call the memo side by side.
C40_PrintedAtMostOnce ==
    \A i, j \in 1..Len(printedLog) : printedLog[i] = printedLog[j] => i = j

====
